---- MODULE Spec2Model ----
(***************************************************************************)
(* Lumina: the presentation document model, the ODP (Format A) writer and  *)
(* reader, the PPTX (Format B) reader and template instantiation, as state *)
(* machines over one Document.                                             *)
(*                                                                         *)
(* State.  doc is the document of the window, nextId the next fresh id,    *)
(* zip the container being written, imgQueue the image blobs still to be   *)
(* written, loaded the result of reading zip back, lastOp the last         *)
(* operation; input is the file or text handed to a reader and output what *)
(* the reader returned for it.                                             *)
(*                                                                         *)
(* Numbers.  f64 lengths in points are fixed-point integers in length      *)
(* units of 1/20000000 pt, so that the 4-decimal centimeter grid of        *)
(* format_cm (0.0001 cm = 0.00283465 pt) is exactly CmGrid = 56693 units.  *)
(* Color channels in [0,1] are integers in units of 1/1020, so that one    *)
(* 8-bit step (1/255) is exactly 4 units.  Strings that are escaped or     *)
(* parsed are sequences of one-character strings.                          *)
(***************************************************************************)
EXTENDS Integers, Sequences, FiniteSets, TLC

VARIABLES doc, nextId, pc, zip, imgQueue, loaded, lastOp, input, output

vars == <<doc, nextId, pc, zip, imgQueue, loaded, lastOp, input, output>>

(***************************************************************************)
(* Bounds of the model.                                                    *)
(***************************************************************************)
MaxSlides == 2
MaxElements == 2
MaxIds == 6
\* the elements a run of the editor creates by hand
MaxCreated == 1

(***************************************************************************)
(* Option values.                                                          *)
(***************************************************************************)
None == [some |-> FALSE]
Some(v) == [some |-> TRUE, v |-> v]

RECURSIVE SeqSum(_)
SeqSum(s) == IF s = <<>> THEN 0 ELSE Head(s) + SeqSum(Tail(s))

Min(a, b) == IF a <= b THEN a ELSE b
Abs(a) == IF a < 0 THEN -a ELSE a

(***************************************************************************)
(* Unit conversion (format/odp/constants.rs).                              *)
(***************************************************************************)
\* length units per point
PtUnit == 2 * 10000000
\* 0.0001 cm in length units: PtUnit * 28.3465 / 10000
CmGrid == 56693
\* 0.0001 in and 0.0001 pt in length units
InGrid == (72 * PtUnit) \div 10000
PtGrid == PtUnit \div 10000

\* a dimension string: a number with four decimals (num, in 1/10000) and a
\* unit suffix; ok = FALSE is a string whose numeric part does not parse
Dim(num, unit) == [ok |-> TRUE, num |-> num, unit |-> unit]
BadDim == [ok |-> FALSE, num |-> 0, unit |-> "cm"]

\* a variant of format_cm that keeps three decimals
format_cm_3(pt) == Dim(((pt + 5 * CmGrid) \div (10 * CmGrid)) * 10, "cm")

\* format!("{:.4}cm", pt / 28.3465): the nearest multiple of 0.0001 cm
format_cm(pt) == Dim((pt + (CmGrid \div 2)) \div CmGrid, "cm")

\* a variant of parse_cm that takes inches for centimeters
parse_cm_inch_as_cm(s) ==
  IF ~s.ok THEN None
  ELSE CASE s.unit \in {"cm", "in", ""} -> Some(s.num * CmGrid)
         [] s.unit = "pt"               -> Some(s.num * PtGrid)
         [] OTHER                       -> None

parse_cm(s) ==
  IF ~s.ok THEN None
  ELSE CASE s.unit = "cm" -> Some(s.num * CmGrid)
         [] s.unit = "in" -> Some(s.num * InGrid)
         [] s.unit = "pt" -> Some(s.num * PtGrid)
         [] s.unit = ""   -> Some(s.num * CmGrid)
         [] OTHER         -> None

(***************************************************************************)
(* Colors (model/style.rs, writer.rs color_to_hex).                        *)
(***************************************************************************)
\* the channel value 1.0
ColorOne == 4 * 255

Color_rgb(r, g, b) == [r |-> r, g |-> g, b |-> b, a |-> ColorOne]
Color_white == Color_rgb(ColorOne, ColorOne, ColorOne)
Color_black == Color_rgb(0, 0, 0)

\* Rust's saturating float-to-u8 cast of x * 255.0
ToU8(x) == LET v == (x * 255) \div ColorOne
           IN IF v < 0 THEN 0 ELSE IF v > 255 THEN 255 ELSE v

\* "#rrggbb": the three bytes; ok = FALSE is a string from_hex rejects
Hex(r, g, b) == [ok |-> TRUE, r |-> r, g |-> g, b |-> b]
BadHex == [ok |-> FALSE, r |-> 0, g |-> 0, b |-> 0]

\* a variant of color_to_hex that writes the channels as bbggrr
color_to_hex_bgr(color) == Hex(ToU8(color.b), ToU8(color.g), ToU8(color.r))

color_to_hex(color) == Hex(ToU8(color.r), ToU8(color.g), ToU8(color.b))

Color_from_hex(hex) ==
  IF ~hex.ok THEN None
  ELSE Some(Color_rgb((hex.r * ColorOne) \div 255,
                      (hex.g * ColorOne) \div 255,
                      (hex.b * ColorOne) \div 255))

parse_color(hex) == Color_from_hex(hex)

(***************************************************************************)
(* XML escaping (writer.rs xml_escape; quick_xml unescape).                *)
(***************************************************************************)
EscapeChar(c) ==
  CASE c = "&"  -> <<"&", "a", "m", "p", ";">>
    [] c = "<"  -> <<"&", "l", "t", ";">>
    [] c = ">"  -> <<"&", "g", "t", ";">>
    [] c = "\"" -> <<"&", "q", "u", "o", "t", ";">>
    [] c = "'"  -> <<"&", "a", "p", "o", "s", ";">>
    [] OTHER    -> <<c>>

RECURSIVE xml_escape(_)
xml_escape(s) == IF s = <<>> THEN <<>> ELSE EscapeChar(Head(s)) \o xml_escape(Tail(s))

EntityChar(name) ==
  CASE name = <<"a", "m", "p">>      -> Some("&")
    [] name = <<"l", "t">>           -> Some("<")
    [] name = <<"g", "t">>           -> Some(">")
    [] name = <<"q", "u", "o", "t">> -> Some("\"")
    [] name = <<"a", "p", "o", "s">> -> Some("'")
    [] OTHER                         -> None

\* BytesText::unescape: None is the Err of an unknown or unterminated entity
RECURSIVE unescape(_)
unescape(s) ==
  IF s = <<>> THEN Some(<<>>)
  ELSE IF Head(s) # "&"
    THEN LET rest == unescape(Tail(s))
         IN IF rest.some THEN Some(<<Head(s)>> \o rest.v) ELSE None
    ELSE LET ends == {j \in 2..Len(s) : s[j] = ";"}
         IN IF ends = {} THEN None
            ELSE LET j == CHOOSE k \in ends : \A m \in ends : k <= m
                     ch == EntityChar(SubSeq(s, 2, j - 1))
                     rest == unescape(SubSeq(s, j + 1, Len(s)))
                 IN IF ch.some /\ rest.some THEN Some(<<ch.v>> \o rest.v) ELSE None

\* str::trim().is_empty()
IsBlank(s) == \A i \in 1..Len(s) : s[i] \in {" ", "\n", "\t"}

(***************************************************************************)
(* Document model (model/*.rs).                                            *)
(***************************************************************************)
Rect_new(x, y, w, h) == [x |-> x, y |-> y, w |-> w, h |-> h]

FontStyle_default ==
  [family |-> <<"S", "a", "n", "s">>, size |-> 24, bold |-> FALSE, italic |-> FALSE, color |-> Color_black]

StrokeStyle_new(color, width) == [color |-> color, width |-> width]
StrokeStyle_default == StrokeStyle_new(Color_black, 2 * PtUnit)
FillStyle_new(color) == [color |-> color]

TextRun_new(text, font) == [text |-> text, font |-> font]
TextParagraph_new(runs) == [runs |-> runs]

\* TextElement::new(bounds, text): one paragraph with one plain run
TextElement_new(id, bounds, text) ==
  [kind |-> "Text", id |-> id, bounds |-> bounds, rotation |-> 0,
   paragraphs |-> <<TextParagraph_new(<<TextRun_new(text, FontStyle_default)>>)>>,
   alignment |-> "Left"]

\* ShapeElement::new: a line has no fill, the others the default blue fill
ShapeElement_new(id, bounds, shape_type) ==
  [kind |-> "Shape", id |-> id, bounds |-> bounds, rotation |-> 0,
   shape_type |-> shape_type,
   fill |-> IF shape_type = "Line" THEN None
            ELSE Some(FillStyle_new(Color_from_hex(Hex(74, 134, 207)).v)),
   stroke |-> Some(StrokeStyle_default)]

ImageElement_new(id, bounds, data, mime) ==
  [kind |-> "Image", id |-> id, bounds |-> bounds, rotation |-> 0,
   data |-> data, mime |-> mime]

\* a variant of Slide::new that gives every slide the nil id
Slide_nil(id) == [id |-> 0, elements |-> <<>>, background |-> Color_white]

Slide_new(id) == [id |-> id, elements |-> <<>>, background |-> Color_white]

Document_new(id) == [slides |-> <<Slide_new(id)>>]

InsertAt(s, i, x) == SubSeq(s, 1, i - 1) \o <<x>> \o SubSeq(s, i, Len(s))
RemoveAt(s, i) == SubSeq(s, 1, i - 1) \o SubSeq(s, i + 1, Len(s))

\* Document::add_slide / insert_slide / remove_slide / move_slide; indices
\* are 0-based as in the source, sequences 1-based
add_slide(d, id) == [d EXCEPT !.slides = Append(@, Slide_new(id))]

insert_slide(d, index, id) ==
  LET idx == Min(index, Len(d.slides))
  IN [d EXCEPT !.slides = InsertAt(@, idx + 1, Slide_new(id))]

\* a variant of remove_slide without the len() > 1 condition
remove_slide_any(d, index) ==
  IF index < Len(d.slides) THEN [d EXCEPT !.slides = RemoveAt(@, index + 1)] ELSE d

\* a variant of remove_slide on Vec::swap_remove: the last slide takes the
\* place of the removed one
remove_slide_swap(d, index) ==
  IF Len(d.slides) > 1 /\ index < Len(d.slides)
    THEN LET n == Len(d.slides)
             swapped == [k \in 1..n |-> IF k = index + 1 THEN d.slides[n] ELSE d.slides[k]]
         IN [d EXCEPT !.slides = SubSeq(swapped, 1, n - 1)]
    ELSE d

remove_slide(d, index) ==
  IF Len(d.slides) > 1 /\ index < Len(d.slides)
    THEN [d EXCEPT !.slides = RemoveAt(@, index + 1)]
    ELSE d

\* Option<Slide> returned by remove_slide
remove_slide_returned(d, index) ==
  IF Len(d.slides) > 1 /\ index < Len(d.slides) THEN Some(d.slides[index + 1]) ELSE None

\* a variant of move_slide on slice::swap: the two slides change places
move_slide_swap(d, from, to) ==
  IF from < Len(d.slides) /\ to < Len(d.slides) /\ from # to
    THEN [d EXCEPT !.slides = [@ EXCEPT ![from + 1] = d.slides[to + 1],
                                        ![to + 1] = d.slides[from + 1]]]
    ELSE d

move_slide(d, from, to) ==
  IF from < Len(d.slides) /\ to < Len(d.slides) /\ from # to
    THEN [d EXCEPT !.slides = InsertAt(RemoveAt(@, from + 1), to + 1, d.slides[from + 1])]
    ELSE d

\* Slide::add_element / remove_element
add_element(slide, element) == [slide EXCEPT !.elements = Append(@, element)]

remove_element(slide, id) ==
  LET hits == {i \in 1..Len(slide.elements) : slide.elements[i].id = id}
  IN IF hits = {} THEN slide
     ELSE [slide EXCEPT !.elements = RemoveAt(@, CHOOSE i \in hits : \A j \in hits : i <= j)]

RECURSIVE Flatten(_)
Flatten(ss) == IF ss = <<>> THEN <<>> ELSE Head(ss) \o Flatten(Tail(ss))

(***************************************************************************)
(* XML as the event stream quick_xml delivers.  Attribute keys are local   *)
(* names (the readers match on local_name()); attrs is in document order.  *)
(***************************************************************************)
Attr(key, val) == [key |-> key, val |-> val]
StartTag(name, attrs) == [type |-> "Start", name |-> name, attrs |-> attrs, text |-> <<>>]
EmptyTag(name, attrs) == [type |-> "Empty", name |-> name, attrs |-> attrs, text |-> <<>>]
EndTag(name) == [type |-> "End", name |-> name, attrs |-> <<>>, text |-> <<>>]
TextEv(raw) == [type |-> "Text", name |-> "", attrs |-> <<>>, text |-> raw]
DeclEv == [type |-> "Decl", name |-> "xml", attrs |-> <<>>, text |-> <<>>]
\* the newline and indentation the writer puts between two tags
Ws == TextEv(<<"\n", " ">>)
\* a tag on a line of its own
Line(tag) == <<tag, Ws>>

(***************************************************************************)
(* Format-A writer (format/odp/writer.rs).                                 *)
(***************************************************************************)
ODP_MIMETYPE == <<"application/vnd.oasis.opendocument.presentation">>

mime_to_ext(mime) ==
  CASE mime = "image/png"     -> "png"
    [] mime = "image/jpeg"    -> "jpg"
    [] mime = "image/svg+xml" -> "svg"
    [] mime = "image/webp"    -> "webp"
    [] OTHER                  -> "png"

\* a variant of the image path that leaves the counter out
ImagePath_shared(img_idx, ext) == <<"Pictures/image", 0, ext>>

\* format!("Pictures/image{}.{}", img_idx, ext)
ImagePath(img_idx, ext) == <<"Pictures/image", img_idx, ext>>

\* format!("gr{}", style_idx), format!("P{}_{}", slide_idx, pi),
\* format!("T{}_{}_{}", slide_idx, pi, ri)
GraphicStyleName(style_idx) == <<"gr", style_idx>>
ParaStyleName(slide_idx, pi) == <<"P", slide_idx, pi>>
RunStyleName(slide_idx, pi, ri) == <<"T", slide_idx, pi, ri>>

\* the elements of all slides in document order
AllElements(d) == Flatten([i \in 1..Len(d.slides) |-> d.slides[i].elements])
ImagesOf(elements) == SelectSeq(elements, LAMBDA e : e.kind = "Image")

FileEntry(full_path, media_type) == [full_path |-> full_path, media_type |-> media_type]

\* the manifest: its file-entry elements in document order
build_manifest(d) ==
  LET imgs == ImagesOf(AllElements(d))
  IN <<FileEntry(<<"/">>, ODP_MIMETYPE),
       FileEntry(<<"content.xml">>, <<"text/xml">>),
       FileEntry(<<"styles.xml">>, <<"text/xml">>),
       FileEntry(<<"meta.xml">>, <<"text/xml">>)>>
     \o [img_idx \in 1..Len(imgs) |->
           FileEntry(ImagePath(img_idx - 1, mime_to_ext(imgs[img_idx].mime)),
                     <<imgs[img_idx].mime>>)]

build_meta(d) ==
  <<DeclEv, Ws>>
  \o Line(StartTag("document-meta", <<>>))
  \o Line(StartTag("meta", <<>>))
  \o <<StartTag("generator", <<>>), TextEv(<<"L", "u", "m", "i", "n", "a">>),
       EndTag("generator"), Ws>>
  \o Line(EndTag("meta"))
  \o Line(EndTag("document-meta"))

BoundsAttrs(b) ==
  <<Attr("x", format_cm(b.x)), Attr("y", format_cm(b.y)),
    Attr("width", format_cm(b.w)), Attr("height", format_cm(b.h))>>

\* writer.rs:179-218: the paragraph and run style records of one text element
TextStyleRecords(slide_idx, text) ==
  Flatten([p \in 1..Len(text.paragraphs) |->
    LET pi == p - 1
        para == text.paragraphs[p]
        align == CASE text.alignment = "Left"   -> "start"
                   [] text.alignment = "Center" -> "center"
                   [] text.alignment = "Right"  -> "end"
    IN Line(StartTag("style", <<Attr("name", ParaStyleName(slide_idx, pi)),
                                Attr("family", "paragraph")>>))
       \o Line(EmptyTag("paragraph-properties", <<Attr("text-align", align)>>))
       \o Line(EndTag("style"))
       \o Flatten([r \in 1..Len(para.runs) |->
            LET ri == r - 1
                run == para.runs[r]
            IN Line(StartTag("style", <<Attr("name", RunStyleName(slide_idx, pi, ri)),
                                        Attr("family", "text")>>))
               \o Line(EmptyTag("text-properties",
                    <<Attr("font-size", Dim(run.font.size, "pt")),
                      Attr("color", color_to_hex(run.font.color)),
                      Attr("font-name", xml_escape(run.font.family))>>
                    \o (IF run.font.bold THEN <<Attr("font-weight", "bold")>> ELSE <<>>)
                    \o (IF run.font.italic THEN <<Attr("font-style", "italic")>> ELSE <<>>)))
               \o Line(EndTag("style"))])])

\* writer.rs:220-247: the frame of one text element
TextFrame(slide_idx, style_name, text) ==
  Line(StartTag("frame", <<Attr("style-name", style_name)>> \o BoundsAttrs(text.bounds)))
  \o Line(StartTag("text-box", <<>>))
  \o Flatten([p \in 1..Len(text.paragraphs) |->
       LET pi == p - 1
           para == text.paragraphs[p]
       IN Line(StartTag("p", <<Attr("style-name", ParaStyleName(slide_idx, pi))>>))
          \o Flatten([r \in 1..Len(para.runs) |->
               <<StartTag("span", <<Attr("style-name", RunStyleName(slide_idx, pi, r - 1))>>)>>
               \o (IF para.runs[r].text = <<>> THEN <<>>
                   ELSE <<TextEv(xml_escape(para.runs[r].text))>>)
               \o <<EndTag("span"), Ws>>])
          \o Line(EndTag("p"))])
  \o Line(EndTag("text-box"))
  \o Line(EndTag("frame"))

\* writer.rs:253-277: the graphic style record of one shape
ShapeStyleRecord(style_name, shape) ==
  Line(StartTag("style", <<Attr("name", style_name), Attr("family", "graphic")>>))
  \o Line(EmptyTag("graphic-properties",
       (IF shape.fill.some
          THEN <<Attr("fill", "solid"), Attr("fill-color", color_to_hex(shape.fill.v.color))>>
          ELSE <<Attr("fill", "none")>>)
       \o (IF shape.stroke.some
             THEN <<Attr("stroke", "solid"),
                    Attr("stroke-color", color_to_hex(shape.stroke.v.color)),
                    Attr("stroke-width", format_cm(shape.stroke.v.width))>>
             ELSE <<Attr("stroke", "none")>>)))
  \o Line(EndTag("style"))

\* a variant of the shape tag that carries the element id as draw:id
ShapeTag_with_id(style_name, shape) ==
  Line(EmptyTag("custom-shape", <<Attr("style-name", style_name), Attr("id", shape.id)>>
                                \o BoundsAttrs(shape.bounds)))

\* writer.rs:279-314: the primitive of one shape
ShapeTag(style_name, shape) ==
  CASE shape.shape_type = "Rectangle" ->
         Line(EmptyTag("rect", <<Attr("style-name", style_name)>> \o BoundsAttrs(shape.bounds)))
    [] shape.shape_type = "Ellipse" ->
         Line(EmptyTag("ellipse", <<Attr("style-name", style_name)>> \o BoundsAttrs(shape.bounds)))
    [] shape.shape_type = "Line" ->
         LET x1 == shape.bounds.x
             y1 == shape.bounds.y
             x2 == x1 + shape.bounds.w
             y2 == y1 + shape.bounds.h
         IN Line(EmptyTag("line", <<Attr("style-name", style_name),
                                    Attr("x1", format_cm(x1)), Attr("y1", format_cm(y1)),
                                    Attr("x2", format_cm(x2)), Attr("y2", format_cm(y2))>>))

NoneStyleRecord(style_name, extra) ==
  Line(StartTag("style", <<Attr("name", style_name), Attr("family", "graphic")>> \o extra))
  \o Line(EmptyTag("graphic-properties", <<Attr("stroke", "none"), Attr("fill", "none")>>))
  \o Line(EndTag("style"))

\* writer.rs:164-348: one iteration of the element loop on the writer's
\* locals w = [auto_styles, body, images, img_idx, style_idx]
WriteElement(w, slide_idx, element) ==
  LET style_name == GraphicStyleName(w.style_idx)
  IN CASE element.kind = "Text" ->
            [w EXCEPT !.style_idx = @ + 1,
                      !.auto_styles = @ \o NoneStyleRecord(style_name,
                                             <<Attr("parent-style-name", "standard")>>)
                                        \o TextStyleRecords(slide_idx, element),
                      !.body = @ \o TextFrame(slide_idx, style_name, element)]
       [] element.kind = "Shape" ->
            [w EXCEPT !.style_idx = @ + 1,
                      !.auto_styles = @ \o ShapeStyleRecord(style_name, element),
                      !.body = @ \o ShapeTag(style_name, element)]
       [] element.kind = "Image" ->
            LET img_path == ImagePath(w.img_idx, mime_to_ext(element.mime))
            IN [w EXCEPT !.style_idx = @ + 1,
                         !.auto_styles = @ \o NoneStyleRecord(style_name, <<>>),
                         !.body = @ \o Line(StartTag("frame", <<Attr("style-name", style_name)>>
                                                              \o BoundsAttrs(element.bounds)))
                                    \o Line(EmptyTag("image", <<Attr("href", img_path),
                                                                Attr("type", "simple"),
                                                                Attr("show", "embed"),
                                                                Attr("actuate", "onLoad")>>))
                                    \o Line(EndTag("frame")),
                         !.images = Append(@, [path |-> img_path, data |-> element.data]),
                         !.img_idx = @ + 1]

RECURSIVE WriteElements(_, _, _)
WriteElements(w, slide_idx, elements) ==
  IF elements = <<>> THEN w
  ELSE WriteElements(WriteElement(w, slide_idx, Head(elements)), slide_idx, Tail(elements))

\* writer.rs:158-352: the slide loop, from slide index slide_idx on
RECURSIVE WriteSlides(_, _, _)
WriteSlides(w, slide_idx, slides) ==
  IF slides = <<>> THEN w
  ELSE LET open == [w EXCEPT !.body = @ \o Line(StartTag("page",
                        <<Attr("name", <<"Slide", slide_idx + 1>>),
                          Attr("style-name", <<"dp", 1>>),
                          Attr("master-page-name", "Default"),
                          Attr("presentation-page-layout-name", "AL1T0")>>))]
           done == WriteElements(open, slide_idx, Head(slides).elements)
           closed == [done EXCEPT !.body = @ \o Line(EndTag("page"))]
       IN WriteSlides(closed, slide_idx + 1, Tail(slides))

\* build_content: the content part's events and the image blobs
build_content(d) ==
  LET w0 == [auto_styles |->
               Line(StartTag("style", <<Attr("name", <<"dp", 1>>),
                                        Attr("family", "drawing-page")>>))
               \o Line(EmptyTag("drawing-page-properties",
                    <<Attr("fill", "solid"), Attr("fill-color", Hex(255, 255, 255))>>))
               \o Line(EndTag("style")),
             body |-> Line(StartTag("body", <<>>)) \o Line(StartTag("presentation", <<>>)),
             images |-> <<>>, img_idx |-> 0, style_idx |-> 0]
      w == WriteSlides(w0, 0, d.slides)
  IN [xml |-> <<DeclEv, Ws>>
              \o Line(StartTag("document-content", <<>>))
              \o Line(StartTag("automatic-styles", <<>>))
              \o w.auto_styles
              \o Line(EndTag("automatic-styles"))
              \o w.body
              \o Line(EndTag("presentation"))
              \o Line(EndTag("body"))
              \o Line(EndTag("document-content")),
      images |-> w.images]

(***************************************************************************)
(* Format-A reader (format/odp/reader.rs).                                 *)
(***************************************************************************)
\* s[lo..hi] folded into acc from the left.  The fold goes by halves and
\* binds each half's result as a value before the next half starts, which
\* keeps the evaluation's nesting logarithmic in the number of events.
RECURSIVE FoldRange(_, _, _, _, _)
FoldRange(Op(_, _), acc, s, lo, hi) ==
  IF lo > hi THEN acc
  ELSE IF lo = hi THEN Op(acc, s[lo])
  ELSE LET mid == (lo + hi) \div 2
       IN CHOOSE r \in { FoldRange(Op, left, s, mid + 1, hi) :
                           left \in {FoldRange(Op, acc, s, lo, mid)} } : TRUE

FoldSeq(Op(_, _), acc, s) == FoldRange(Op, acc, s, 1, Len(s))

\* the events a pass sees: those before the first malformed point
\* (Err(_) => break) or the end of the part (Event::Eof)
BeforeErr(events) ==
  LET errs == {i \in 1..Len(events) : events[i].type = "Err"}
  IN IF errs = {} THEN events
     ELSE SubSeq(events, 1, (CHOOSE i \in errs : \A j \in errs : i <= j) - 1)

\* a file on disk: whether its bytes are a ZIP container and, if so, the
\* entries in the order they were written
File(entries) == [valid |-> TRUE, entries |-> entries]
NotZip == [valid |-> FALSE, entries |-> <<>>]

\* ZipArchive::new(file): None is the InvalidData error
ZipArchive_new(file) == IF file.valid THEN Some(file.entries) ELSE None

\* a reader that takes an absent entry for one without bytes
read_zip_entry_bytes_or_empty(archive, name) ==
  LET hits == {i \in 1..Len(archive) : archive[i].name = name}
  IN IF hits = {} THEN Some(<<>>) ELSE Some(archive[CHOOSE i \in hits : TRUE].data)

\* by_name(name) then read_to_end
read_zip_entry_bytes(archive, name) ==
  LET hits == {i \in 1..Len(archive) : archive[i].name = name}
  IN IF hits = {} THEN None ELSE Some(archive[CHOOSE i \in hits : TRUE].data)

\* the event that stands for bytes that are not UTF-8 in a part
NotUtf8 == [type |-> "NotUtf8", name |-> "", attrs |-> <<>>, text |-> <<>>]

\* a reader that takes an absent part for an empty one
read_zip_entry_or_default(archive, name) ==
  LET entry == read_zip_entry_bytes(archive, name)
  IN IF entry.some THEN entry ELSE Some(<<>>)

\* by_name(name) then read_to_string, which fails on bytes that are not UTF-8
read_zip_entry(archive, name) ==
  LET entry == read_zip_entry_bytes(archive, name)
  IN IF ~entry.some THEN None
     ELSE IF \E i \in 1..Len(entry.v) : entry.v[i] = NotUtf8 THEN None
     ELSE entry

StyleInfo_default ==
  [fill_color |-> None, stroke_color |-> None, stroke_width |-> None,
   has_fill |-> FALSE, has_stroke |-> FALSE,
   font_size |-> None, font_color |-> None, font_family |-> None,
   font_bold |-> FALSE, font_italic |-> FALSE, text_align |-> None]

get_attr(e, local_name) ==
  LET hits == {i \in 1..Len(e.attrs) : e.attrs[i].key = local_name}
  IN IF hits = {} THEN <<>>
     ELSE e.attrs[CHOOSE i \in hits : \A j \in hits : i <= j].val

parse_graphic_props(e, style) ==
  FoldSeq(LAMBDA st, attr :
            CASE attr.key = "fill"         -> [st EXCEPT !.has_fill = (attr.val = "solid")]
              [] attr.key = "fill-color"   -> [st EXCEPT !.fill_color = parse_color(attr.val)]
              [] attr.key = "stroke"       -> [st EXCEPT !.has_stroke = (attr.val = "solid")]
              [] attr.key = "stroke-color" -> [st EXCEPT !.stroke_color = parse_color(attr.val)]
              [] attr.key = "stroke-width" -> [st EXCEPT !.stroke_width = parse_cm(attr.val)]
              [] OTHER                     -> st,
          style, e.attrs)

parse_text_props(e, style) ==
  FoldSeq(LAMBDA st, attr :
            CASE attr.key = "font-size" ->
                   IF attr.val.unit = "pt"
                     THEN [st EXCEPT !.font_size = IF attr.val.ok THEN Some(attr.val.num)
                                                   ELSE None]
                     ELSE st
              [] attr.key = "color" -> [st EXCEPT !.font_color = parse_color(attr.val)]
              [] attr.key \in {"font-name", "font-family"} ->
                   [st EXCEPT !.font_family = Some(attr.val)]
              [] attr.key = "font-weight" -> [st EXCEPT !.font_bold = (attr.val = "bold")]
              [] attr.key = "font-style" -> [st EXCEPT !.font_italic = (attr.val = "italic")]
              [] OTHER -> st,
          style, e.attrs)

parse_paragraph_props(e, style) ==
  FoldSeq(LAMBDA st, attr :
            IF attr.key = "text-align"
              THEN [st EXCEPT !.text_align =
                      Some(CASE attr.val = "center"          -> "Center"
                             [] attr.val \in {"end", "right"} -> "Right"
                             [] OTHER                        -> "Left")]
              ELSE st,
          style, e.attrs)

\* HashMap<String, StyleInfo> as the sequence of its (name, info) pairs:
\* insert replaces the value of a key that is present
MapInsert(map, key, value) ==
  Append(SelectSeq(map, LAMBDA kv : kv.name # key), [name |-> key, info |-> value])

MapHas(map, key) == \E i \in 1..Len(map) : map[i].name = key
MapGet(map, key) == map[CHOOSE i \in 1..Len(map) : map[i].name = key].info

\* reader.rs:147-193: one event of the style pass on its locals
StylePassStep(st, e) ==
  CASE e.type = "Start" ->
         IF e.name = "automatic-styles" THEN [st EXCEPT !.in_auto_styles = TRUE]
         ELSE IF st.in_auto_styles /\ e.name = "style"
           THEN [st EXCEPT !.current_style = StyleInfo_default,
                           !.current_style_name =
                              FoldSeq(LAMBDA n, attr : IF attr.key = "name" THEN attr.val ELSE n,
                                      @, e.attrs)]
           ELSE st
    [] e.type = "Empty" ->
         IF ~st.in_auto_styles THEN st
         ELSE CASE e.name = "graphic-properties" ->
                     [st EXCEPT !.current_style = parse_graphic_props(e, @)]
                [] e.name = "text-properties" ->
                     [st EXCEPT !.current_style = parse_text_props(e, @)]
                [] e.name = "paragraph-properties" ->
                     [st EXCEPT !.current_style = parse_paragraph_props(e, @)]
                [] OTHER -> st
    [] e.type = "End" ->
         IF e.name = "automatic-styles" THEN [st EXCEPT !.in_auto_styles = FALSE]
         ELSE IF st.in_auto_styles /\ e.name = "style" /\ st.current_style_name # <<>>
           THEN [st EXCEPT !.styles = MapInsert(@, st.current_style_name, st.current_style),
                           !.current_style = StyleInfo_default]
           ELSE st
    [] OTHER -> st


\* a variant of the style pass that stops where the body starts
StylePass_to_body(content_xml) ==
  FoldSeq(StylePassStep,
          [styles |-> <<>>, in_auto_styles |-> FALSE,
           current_style_name |-> <<>>, current_style |-> StyleInfo_default],
          BeforeErr([k \in 1..Len(content_xml) |->
                       IF \E j \in 1..k : content_xml[j].type = "Start" /\ content_xml[j].name = "body"
                         THEN [type |-> "Err"] ELSE content_xml[k]])).styles

\* the style table after the first pass
StylePass(content_xml) ==
  FoldSeq(StylePassStep,
          [styles |-> <<>>, in_auto_styles |-> FALSE,
           current_style_name |-> <<>>, current_style |-> StyleInfo_default],
          BeforeErr(content_xml)).styles

ParseDimAttrs(e, keys, defaults) ==
  FoldSeq(LAMBDA b, attr :
            IF attr.key \in DOMAIN keys /\ parse_cm(attr.val).some
              THEN [b EXCEPT ![keys[attr.key]] = parse_cm(attr.val).v]
              ELSE b,
          defaults, e.attrs)

parse_bounds(e) ==
  ParseDimAttrs(e, [x |-> "x", y |-> "y", width |-> "w", height |-> "h"],
                Rect_new(0, 0, 100 * PtUnit, 100 * PtUnit))

parse_line_bounds(e) ==
  LET p == ParseDimAttrs(e, [x1 |-> "x1", y1 |-> "y1", x2 |-> "x2", y2 |-> "y2"],
                         [x1 |-> 0, y1 |-> 0, x2 |-> 100 * PtUnit, y2 |-> 0])
  IN Rect_new(Min(p.x1, p.x2), Min(p.y1, p.y2), Abs(p.x2 - p.x1), Abs(p.y2 - p.y1))

build_shape(id, shape_type, bounds, style_name, styles) ==
  LET shape == ShapeElement_new(id, bounds, shape_type)
  IN IF MapHas(styles, style_name)
       THEN LET style == MapGet(styles, style_name)
            IN [shape EXCEPT
                  !.fill = IF style.has_fill
                             THEN (IF style.fill_color.some
                                     THEN Some(FillStyle_new(style.fill_color.v)) ELSE None)
                             ELSE None,
                  !.stroke = IF style.has_stroke
                               THEN Some(StrokeStyle_new(
                                      IF style.stroke_color.some THEN style.stroke_color.v
                                      ELSE Color_black,
                                      IF style.stroke_width.some THEN style.stroke_width.v
                                      ELSE 2 * PtUnit))
                               ELSE None]
       ELSE shape

guess_mime(path) ==
  LET ext == IF Len(path) > 0 THEN path[Len(path)] ELSE ""
  IN CASE ext = "png"            -> "image/png"
       [] ext \in {"jpg", "jpeg"} -> "image/jpeg"
       [] ext = "svg"            -> "image/svg+xml"
       [] ext = "webp"           -> "image/webp"
       [] OTHER                  -> "image/png"

\* reader.rs:231-261: the font of a span from its style record
SpanFont(ts_name, styles) ==
  IF MapHas(styles, ts_name)
    THEN LET style == MapGet(styles, ts_name)
         IN [family |-> IF style.font_family.some THEN style.font_family.v
                        ELSE <<"S", "a", "n", "s">>,
             size |-> IF style.font_size.some THEN style.font_size.v ELSE 24,
             bold |-> style.font_bold,
             italic |-> style.font_italic,
             color |-> IF style.font_color.some THEN style.font_color.v ELSE Color_black]
    ELSE FontStyle_default

ParagraphAlign(ps_name, styles) ==
  IF MapHas(styles, ps_name) /\ MapGet(styles, ps_name).text_align.some
    THEN MapGet(styles, ps_name).text_align.v
    ELSE "Left"

ContentStart(st, e, styles) ==
  CASE e.name = "presentation" -> [st EXCEPT !.in_presentation = TRUE]
    [] e.name = "page" /\ st.in_presentation ->
         [st EXCEPT !.in_page = TRUE, !.current_elements = <<>>]
    [] e.name = "frame" /\ st.in_page ->
         [st EXCEPT !.in_frame = TRUE, !.frame_bounds = parse_bounds(e)]
    [] e.name = "text-box" /\ st.in_frame ->
         [st EXCEPT !.in_text_box = TRUE, !.current_paragraphs = <<>>]
    [] e.name = "p" /\ st.in_text_box ->
         [st EXCEPT !.in_paragraph = TRUE, !.current_runs = <<>>,
                    !.current_text_align = ParagraphAlign(get_attr(e, "style-name"), styles)]
    [] e.name = "span" /\ st.in_paragraph ->
         [st EXCEPT !.in_span = TRUE, !.current_run_text = <<>>,
                    !.current_run_style = SpanFont(get_attr(e, "style-name"), styles)]
    [] OTHER -> st

PushShape(st, shape_type, bounds, e, styles) ==
  [st EXCEPT !.current_elements =
               Append(@, build_shape(st.nextId, shape_type, bounds,
                                     get_attr(e, "style-name"), styles)),
             !.nextId = @ + 1]

ContentEmpty(st, e, styles, archive) ==
  CASE e.name = "rect" /\ st.in_page -> PushShape(st, "Rectangle", parse_bounds(e), e, styles)
    [] e.name = "ellipse" /\ st.in_page -> PushShape(st, "Ellipse", parse_bounds(e), e, styles)
    [] e.name = "line" /\ st.in_page -> PushShape(st, "Line", parse_line_bounds(e), e, styles)
    [] e.name = "image" /\ st.in_frame ->
         LET href == get_attr(e, "href")
             data == read_zip_entry_bytes(archive, href)
         IN IF href # <<>> /\ data.some
              THEN [st EXCEPT !.current_elements =
                                 Append(@, ImageElement_new(st.nextId, st.frame_bounds,
                                                            data.v, guess_mime(href))),
                              !.nextId = @ + 1,
                              !.in_text_box = FALSE,
                              !.in_frame = FALSE]
              ELSE st
    [] OTHER -> st

\* a variant of the text step that keeps the text of spans only
ContentText_spans_only(st, e) ==
  IF st.in_span /\ unescape(e.text).some
    THEN [st EXCEPT !.current_run_text = @ \o unescape(e.text).v]
    ELSE st

\* reader.rs:301-312: a text event, inside a span or bare in a paragraph
ContentText(st, e) ==
  LET text == unescape(e.text)
  IN IF st.in_span
       THEN (IF text.some THEN [st EXCEPT !.current_run_text = @ \o text.v] ELSE st)
       ELSE IF st.in_paragraph /\ text.some /\ ~IsBlank(text.v)
         THEN [st EXCEPT !.current_runs = Append(@, TextRun_new(text.v, FontStyle_default))]
         ELSE st

ContentEnd(st, e) ==
  CASE e.name = "presentation" -> [st EXCEPT !.in_presentation = FALSE]
    [] e.name = "page" /\ st.in_page ->
         [st EXCEPT !.in_page = FALSE,
                    !.slides = Append(@, [Slide_new(st.nextId) EXCEPT
                                            !.elements = st.current_elements]),
                    !.nextId = @ + 1,
                    !.current_elements = <<>>]
    [] e.name = "frame" /\ st.in_frame -> [st EXCEPT !.in_frame = FALSE]
    [] e.name = "text-box" /\ st.in_text_box ->
         LET text == [TextElement_new(st.nextId, st.frame_bounds, <<>>) EXCEPT
                        !.paragraphs = st.current_paragraphs,
                        !.alignment = st.current_text_align]
         IN [st EXCEPT !.in_text_box = FALSE,
                       !.nextId = @ + 1,
                       !.current_paragraphs = <<>>,
                       !.current_elements = IF text.paragraphs # <<>> THEN Append(@, text)
                                            ELSE @]
    [] e.name = "p" /\ st.in_paragraph ->
         [st EXCEPT !.in_paragraph = FALSE,
                    !.current_paragraphs = Append(@, TextParagraph_new(st.current_runs)),
                    !.current_runs = <<>>]
    [] e.name = "span" /\ st.in_span ->
         IF st.current_run_text # <<>>
           THEN [st EXCEPT !.in_span = FALSE,
                           !.current_runs = Append(@, TextRun_new(st.current_run_text,
                                                                  st.current_run_style)),
                           !.current_run_text = <<>>]
           ELSE [st EXCEPT !.in_span = FALSE]
    [] OTHER -> st

\* reader.rs:213-361: one event of the content pass on its locals
ContentPassStep(st, e, styles, archive) ==
  CASE e.type = "Start" -> ContentStart(st, e, styles)
    [] e.type = "Empty" -> ContentEmpty(st, e, styles, archive)
    [] e.type = "Text"  -> ContentText(st, e)
    [] e.type = "End"   -> ContentEnd(st, e)
    [] OTHER            -> st

\* a variant of the closing step that returns the slides as collected
EnsureSlide_skip(st) == [doc |-> [slides |-> st.slides], nextId |-> st.nextId]

\* reader.rs:363-366: a document without slides gets one
EnsureSlide(st) ==
  IF st.slides = <<>>
    THEN [doc |-> [slides |-> <<Slide_new(st.nextId)>>], nextId |-> st.nextId + 1]
    ELSE [doc |-> [slides |-> st.slides], nextId |-> st.nextId]

\* parse_content: id0 is the first fresh id; Document::new() takes it for
\* the slide that doc.slides.clear() drops
parse_content(content_xml, archive, id0) ==
  LET styles == StylePass(content_xml)
      st0 == [slides |-> <<>>, nextId |-> id0 + 1,
              in_presentation |-> FALSE, in_page |-> FALSE, in_text_box |-> FALSE,
              in_paragraph |-> FALSE, in_span |-> FALSE, in_frame |-> FALSE,
              current_elements |-> <<>>, current_paragraphs |-> <<>>,
              current_runs |-> <<>>, current_run_text |-> <<>>,
              current_run_style |-> FontStyle_default, current_text_align |-> "Left",
              frame_bounds |-> Rect_new(0, 0, 100 * PtUnit, 100 * PtUnit)]
      st == FoldSeq(LAMBDA state, ev : ContentPassStep(state, ev, styles, archive),
                    st0, BeforeErr(content_xml))
  IN EnsureSlide(st)

\* load_document on the opened archive: fails when content.xml is absent
\* Ok(doc)
Loaded(r) == [ok |-> TRUE, doc |-> r.doc, nextId |-> r.nextId]

odp_load_document(archive, id0) ==
  LET content_xml == read_zip_entry(archive, <<"content.xml">>)
  IN IF ~content_xml.some THEN [ok |-> FALSE, doc |-> [slides |-> <<>>], nextId |-> id0]
     ELSE Loaded(parse_content(content_xml.v, archive, id0))

\* a slide dimension: whole points and the rest in length units (960 pt is
\* more than the length units of one integer hold)
Length(v) == [pt |-> v \div PtUnit, lu |-> v % PtUnit]
WholePoints(n) == [pt |-> n, lu |-> 0]

DefaultWidth == 960
DefaultHeight == 540

Size_new(width, height) == [width |-> width, height |-> height]

\* a reader that takes the two dimensions only together
LayoutProps_both(size, e) ==
  LET w == parse_cm(get_attr(e, "page-width"))
      h == parse_cm(get_attr(e, "page-height"))
  IN IF get_attr(e, "page-width") # <<>> /\ get_attr(e, "page-height") # <<>>
          /\ w.some /\ h.some
       THEN Size_new(Length(w.v), Length(h.v))
       ELSE size

\* reader.rs:74-86: the attributes of one page-layout-properties element
LayoutProps(size, e) ==
  FoldSeq(LAMBDA sz, attr :
            IF attr.key = "page-width" /\ parse_cm(attr.val).some
              THEN [sz EXCEPT !.width = Length(parse_cm(attr.val).v)]
            ELSE IF attr.key = "page-height" /\ parse_cm(attr.val).some
              THEN [sz EXCEPT !.height = Length(parse_cm(attr.val).v)]
            ELSE sz,
          size, e.attrs)

parse_slide_size(styles_xml) ==
  FoldSeq(LAMBDA size, e :
            IF e.type \in {"Empty", "Start"} /\ e.name = "page-layout-properties"
              THEN LayoutProps(size, e)
              ELSE size,
          Size_new(WholePoints(DefaultWidth), WholePoints(DefaultHeight)),
          BeforeErr(styles_xml))

\* unwrap_or_default of a part that was read
unwrap_or_default(part) == IF part.some THEN part.v ELSE <<>>

\* reader.rs:34: doc.slide_size = slide_size
SetSlideSize(r, slide_size) ==
  IF r.ok THEN [r EXCEPT !.doc = [slides |-> r.doc.slides, slide_size |-> slide_size]]
  ELSE r

\* load_document from the file: ZipArchive::new, the two parts, the size
odp_load_file(file, id0) ==
  IF ~ZipArchive_new(file).some
    THEN [ok |-> FALSE, doc |-> [slides |-> <<>>], nextId |-> id0]
    ELSE SetSlideSize(odp_load_document(ZipArchive_new(file).v, id0),
                      parse_slide_size(unwrap_or_default(
                        read_zip_entry(ZipArchive_new(file).v, <<"styles.xml">>))))

\* build_styles: the page-layout part; the Document of this model carries no
\* slide_size, so the page-width and page-height attributes are left out
build_styles(d) ==
  <<DeclEv, Ws>>
  \o Line(StartTag("document-styles", <<>>))
  \o Line(StartTag("automatic-styles", <<>>))
  \o Line(StartTag("page-layout", <<Attr("name", <<"PM", 1>>)>>))
  \o Line(EmptyTag("page-layout-properties", <<Attr("print-orientation", "landscape")>>))
  \o Line(EndTag("page-layout"))
  \o Line(EndTag("automatic-styles"))
  \o Line(StartTag("master-styles", <<>>))
  \o Line(EmptyTag("master-page", <<Attr("name", "Default"),
                                    Attr("page-layout-name", <<"PM", 1>>),
                                    Attr("style-name", <<"dp", 1>>)>>))
  \o Line(EndTag("master-styles"))
  \o Line(EndTag("document-styles"))

(***************************************************************************)
(* Sample values the documents are built from.                             *)
(***************************************************************************)
Blue == Color_from_hex(Hex(53, 132, 228)).v
\* colors off the 8-bit grid, one translucent, as a color dialog returns them
OffGridColor == [r |-> ColorOne - 1, g |-> 3, b |-> 2 * 255 + 1, a |-> ColorOne]
Translucent == [r |-> 2 * 255, g |-> ColorOne, b |-> 0, a |-> 2 * 255]

\* on the centimeter grid, off it, and at the two sides of a rounding step
GridBounds == Rect_new(0, 100 * CmGrid, 20 * PtUnit, 10 * PtUnit)
OffBounds == Rect_new(-(CmGrid \div 2), (CmGrid \div 2) + 1, 3 * PtUnit + 7, 0)
StepBounds == Rect_new(CmGrid \div 2, 5 * PtUnit, 1, 2 * CmGrid)

BoldFont == [family |-> <<"M">>, size |-> 48, bold |-> TRUE, italic |-> FALSE, color |-> Blue]
ItalicFont == [family |-> <<"A", "&", "B">>, size |-> 20, bold |-> FALSE, italic |-> TRUE,
               color |-> OffGridColor]

Text(bounds, alignment, paragraphs) ==
  [TextElement_new(0, bounds, <<>>) EXCEPT !.alignment = alignment, !.paragraphs = paragraphs]
Shape(bounds, shape_type, fill, stroke) ==
  [ShapeElement_new(0, bounds, shape_type) EXCEPT !.fill = fill, !.stroke = stroke]

\* a title as TextElement::new makes it, and a text with an empty run, a
\* run to escape and a paragraph without runs
SampleTexts ==
  { Text(GridBounds, "Left", <<TextParagraph_new(<<TextRun_new(<<"T">>, FontStyle_default)>>)>>),
    Text(StepBounds, "Right",
         <<TextParagraph_new(<<TextRun_new(<<>>, ItalicFont),
                               TextRun_new(<<"a", "<", "b">>, BoldFont)>>),
           TextParagraph_new(<<>>)>>) }

\* a text element whose paragraph list is empty
EmptyText == Text(GridBounds, "Center", <<>>)

SampleShapes ==
  { Shape(GridBounds, "Rectangle", Some(FillStyle_new(OffGridColor)), None),
    Shape(OffBounds, "Ellipse", None, Some(StrokeStyle_new(Translucent, 3 * PtUnit))),
    Shape(StepBounds, "Line", None, Some(StrokeStyle_default)) }

SampleImages ==
  { ImageElement_new(0, GridBounds, <<255, 216>>, "image/jpeg"),
    ImageElement_new(0, OffBounds, <<>>, "image/gif") }

SampleElements == SampleTexts \cup SampleShapes \cup SampleImages
SampleBackgrounds == {Color_white, Blue}

SeqsUpTo(S, n) == UNION {[1..k -> S] : k \in 0..n}

\* a document from its elements in document order, the index of the last
\* element of each slide (ends, nondecreasing) and the slides' background;
\* ids are 1, 2, ... in creation order: each slide, then its elements
MakeDocument(elements, ends, background) ==
  [slides |->
     [i \in 1..Len(ends) |->
        LET first == IF i = 1 THEN 1 ELSE ends[i - 1] + 1
        IN [id |-> first + i - 1,
            elements |-> [k \in 1..(ends[i] - first + 1) |->
                            [elements[first + k - 1] EXCEPT !.id = first + i - 1 + k]],
            background |-> background]]]

\* the splits of n elements into 1..MaxSlides slides
Splits(n) ==
  { Append(cuts, n) :
      cuts \in { c \in SeqsUpTo(0..n, MaxSlides - 1) :
                   \A i \in 1..(Len(c) - 1) : c[i] <= c[i + 1] } }

DocumentsOver(elementSet) ==
  UNION { { MakeDocument(es, ends, bg) : ends \in Splits(Len(es)), bg \in SampleBackgrounds } :
          es \in SeqsUpTo(elementSet, MaxElements) }

\* slides + elements: the ids a document holds
IdCount(d) == Len(d.slides) + Len(AllElements(d))

(***************************************************************************)
(* Saving and loading (writer.rs save_document, reader.rs load_document).  *)
(* zip is the container: its entries in the order they were started.       *)
(***************************************************************************)
ZipEntry(name, method, data) == [name |-> name, method |-> method, data |-> data]

\* the record of a step: the operation and the slide count it found
Did(op) == [op |-> op, slides |-> Len(doc.slides)]

\* a variant of the mimetype entry written with the later entries' options
MimetypeEntry_deflated == ZipEntry(<<"mimetype">>, "Deflated", ODP_MIMETYPE)

\* the entries save_document starts, in its order
MimetypeEntry == ZipEntry(<<"mimetype">>, "Stored", ODP_MIMETYPE)
ManifestEntry(d) == ZipEntry(<<"META-INF/manifest.xml">>, "Deflated", build_manifest(d))
MetaEntry(d) == ZipEntry(<<"meta.xml">>, "Deflated", build_meta(d))
StylesEntry(d) == ZipEntry(<<"styles.xml">>, "Deflated", build_styles(d))
ContentEntry(content) == ZipEntry(<<"content.xml">>, "Deflated", content)
ImageEntry(image) == ZipEntry(image.path, "Deflated", image.data)

\* save_document run to its end: the container on disk
save_document(d) ==
  LET built == build_content(d)
  IN <<MimetypeEntry, ManifestEntry(d), MetaEntry(d), StylesEntry(d), ContentEntry(built.xml)>>
     \o [i \in 1..Len(built.images) |-> ImageEntry(built.images[i])]

\* File::create and ZipWriter::new
SaveCreate ==
  /\ pc = "ready"
  /\ zip' = <<>>
  /\ pc' = "mimetype"
  /\ lastOp' = Did("SaveCreate")
  /\ UNCHANGED <<doc, nextId, imgQueue, loaded, input, output>>

SaveMimetype ==
  /\ pc = "mimetype"
  /\ zip' = Append(zip, MimetypeEntry)
  /\ pc' = "manifest"
  /\ lastOp' = Did("SaveMimetype")
  /\ UNCHANGED <<doc, nextId, imgQueue, loaded, input, output>>

SaveManifest ==
  /\ pc = "manifest"
  /\ zip' = Append(zip, ManifestEntry(doc))
  /\ pc' = "meta"
  /\ lastOp' = Did("SaveManifest")
  /\ UNCHANGED <<doc, nextId, imgQueue, loaded, input, output>>

SaveMeta ==
  /\ pc = "meta"
  /\ zip' = Append(zip, MetaEntry(doc))
  /\ pc' = "styles"
  /\ lastOp' = Did("SaveMeta")
  /\ UNCHANGED <<doc, nextId, imgQueue, loaded, input, output>>

SaveStyles ==
  /\ pc = "styles"
  /\ zip' = Append(zip, StylesEntry(doc))
  /\ pc' = "content"
  /\ lastOp' = Did("SaveStyles")
  /\ UNCHANGED <<doc, nextId, imgQueue, loaded, input, output>>

SaveContent ==
  /\ pc = "content"
  /\ LET built == build_content(doc)
     IN /\ zip' = Append(zip, ContentEntry(built.xml))
        /\ imgQueue' = built.images
  /\ pc' = "images"
  /\ lastOp' = Did("SaveContent")
  /\ UNCHANGED <<doc, nextId, loaded, input, output>>

\* one iteration of the image loop
SaveImage ==
  /\ pc = "images"
  /\ imgQueue # <<>>
  /\ zip' = Append(zip, ImageEntry(Head(imgQueue)))
  /\ imgQueue' = Tail(imgQueue)
  /\ lastOp' = Did("SaveImage")
  /\ UNCHANGED <<doc, nextId, pc, loaded, input, output>>

SaveFinish ==
  /\ pc = "images"
  /\ imgQueue = <<>>
  /\ pc' = "saved"
  /\ lastOp' = Did("SaveFinish")
  /\ UNCHANGED <<doc, nextId, zip, imgQueue, loaded, input, output>>

\* load_document on the container just written
Load ==
  /\ pc = "saved"
  /\ LET r == odp_load_document(zip, nextId)
     IN /\ loaded' = IF r.ok THEN Some(r.doc) ELSE None
        /\ nextId' = r.nextId
  /\ pc' = "loaded"
  /\ lastOp' = Did("Load")
  /\ UNCHANGED <<doc, zip, imgQueue, input, output>>

CodecNext ==
  \/ SaveCreate \/ SaveMimetype \/ SaveManifest \/ SaveMeta \/ SaveStyles
  \/ SaveContent \/ SaveImage \/ SaveFinish \/ Load

CodecInitOver(documents) ==
  /\ doc \in documents
  /\ nextId = IdCount(doc) + 1
  /\ pc = "ready"
  /\ zip = <<>>
  /\ imgQueue = <<>>
  /\ loaded = None
  /\ lastOp = [op |-> "init", slides |-> 0]
  /\ input = <<>>
  /\ output = None

\* the documents the program builds: every text element has a paragraph
CodecInit == CodecInitOver(DocumentsOver(SampleElements))
CodecSpec == CodecInit /\ [][CodecNext]_vars

\* every Document value, text elements without paragraphs included
AnyDocInit == CodecInitOver(DocumentsOver(SampleElements \cup {EmptyText}))
AnyDocSpec == AnyDocInit /\ [][CodecNext]_vars

(***************************************************************************)
(* Round trip: the document saved and the document load_document returns.  *)
(***************************************************************************)
Saved == pc \in {"saved", "loaded"}
RoundTripped == pc = "loaded" /\ loaded.some

ElementKinds(slide) == [k \in 1..Len(slide.elements) |-> slide.elements[k].kind]

\* the elements of d paired with the ones at the same place in l
Positions(d) == {<<i, k>> \in (1..Len(d.slides)) \X (1..MaxElements) :
                   k <= Len(d.slides[i].elements)}
HasPosition(l, p) == p[1] <= Len(l.slides) /\ p[2] <= Len(l.slides[p[1]].elements)
ElementAt(d, p) == d.slides[p[1]].elements[p[2]]

\* C1: loading a saved document gives the same number of slides, and on each
\* slide the same number of elements with the same sequence of kinds.
C1_StructurePreserved ==
  RoundTripped =>
    /\ Len(loaded.v.slides) = Len(doc.slides)
    /\ \A i \in 1..Len(doc.slides) :
         ElementKinds(loaded.v.slides[i]) = ElementKinds(doc.slides[i])

\* 0.0001 cm, the last decimal format_cm writes
CmTolerance == CmGrid
NearLength(a, b) == Abs(a - b) <= CmTolerance
NearBounds(a, b) ==
  NearLength(a.x, b.x) /\ NearLength(a.y, b.y) /\ NearLength(a.w, b.w) /\ NearLength(a.h, b.h)

ColorStep == ColorOne \div 255
NearColor(a, b) ==
  /\ Abs(a.r - b.r) <= ColorStep
  /\ Abs(a.g - b.g) <= ColorStep
  /\ Abs(a.b - b.b) <= ColorStep

RunFacts(run) == [text |-> run.text, family |-> run.font.family, size |-> run.font.size,
                  bold |-> run.font.bold, italic |-> run.font.italic]
NonEmptyRuns(para) == SelectSeq(para.runs, LAMBDA run : run.text # <<>>)
ParagraphFacts(text) ==
  [p \in 1..Len(text.paragraphs) |->
     LET runs == NonEmptyRuns(text.paragraphs[p])
     IN [r \in 1..Len(runs) |-> RunFacts(runs[r])]]

\* C4: a text element comes back with its alignment and with the text,
\* family, size, bold and italic of each of its non-empty runs, also when
\* several text elements are on one slide.
C4_TextPreserved ==
  RoundTripped =>
    \A p \in Positions(doc) :
      ElementAt(doc, p).kind = "Text" =>
        /\ HasPosition(loaded.v, p)
        /\ ElementAt(loaded.v, p).kind = "Text"
        /\ ElementAt(loaded.v, p).alignment = ElementAt(doc, p).alignment
        /\ ParagraphFacts(ElementAt(loaded.v, p)) = ParagraphFacts(ElementAt(doc, p))

\* C5: every element comes back with its rotation and every slide with its
\* background color.
C5_RotationBackgroundPreserved ==
  RoundTripped =>
    /\ Len(loaded.v.slides) = Len(doc.slides)
    /\ \A i \in 1..Len(doc.slides) :
         NearColor(loaded.v.slides[i].background, doc.slides[i].background)
    /\ \A p \in Positions(doc) :
         /\ HasPosition(loaded.v, p)
         /\ ElementAt(loaded.v, p).rotation = ElementAt(doc, p).rotation

(***************************************************************************)
(* The container save_document writes.                                     *)
(***************************************************************************)
IsInjective(s) == \A i, j \in 1..Len(s) : s[i] = s[j] => i = j

\* C6: the mimetype entry is the first entry of the container and is
\* Stored; every entry after it (manifest, meta, styles, content, images) is
\* Deflated.
C6_MimetypeFirstStored ==
  /\ pc \notin {"ready", "mimetype"} =>
       /\ Len(zip) >= 1
       /\ zip[1].name = <<"mimetype">>
       /\ zip[1].method = "Stored"
  /\ \A i \in 2..Len(zip) :
       /\ zip[i].method = "Deflated"
       /\ zip[i].name # <<"mimetype">>
  /\ Saved =>
       /\ Len(zip) = 5 + Len(ImagesOf(AllElements(doc)))
       /\ [i \in 1..5 |-> zip[i].name] =
            <<<<"mimetype">>, <<"META-INF/manifest.xml">>, <<"meta.xml">>,
              <<"styles.xml">>, <<"content.xml">>>>

\* a container with two image entries is complete
C6_Witness == pc = "saved" /\ Len(zip) = 7

\* the image paths of the manifest, the hrefs of the content part and the
\* names of the image entries, each in document order
ManifestImagePaths(z) ==
  LET entries == read_zip_entry(z, <<"META-INF/manifest.xml">>).v
  IN [i \in 1..(Len(entries) - 4) |-> entries[i + 4].full_path]
ContentHrefs(z) ==
  LET images == SelectSeq(read_zip_entry(z, <<"content.xml">>).v,
                          LAMBDA e : e.type = "Empty" /\ e.name = "image")
  IN [i \in 1..Len(images) |-> get_attr(images[i], "href")]
BlobPaths(z) == [i \in 1..(Len(z) - 5) |-> z[i + 5].name]

\* C7: the manifest's image paths, the content part's hrefs and the image
\* entries' names are one list, Pictures/image0.ext, Pictures/image1.ext, ...
\* in document order; no two images share a path, and each href names the
\* entry that holds its own image's bytes.
C7_ImagePathsAgree ==
  Saved =>
    LET imgs == ImagesOf(AllElements(doc))
        paths == [i \in 1..Len(imgs) |->
                    <<"Pictures/image", i - 1, mime_to_ext(imgs[i].mime)>>]
    IN /\ ManifestImagePaths(zip) = paths
       /\ ContentHrefs(zip) = paths
       /\ BlobPaths(zip) = paths
       /\ IsInjective(paths)
       /\ \A i \in 1..Len(imgs) :
            \A k \in 1..Len(zip) : zip[k].name = ContentHrefs(zip)[i] => zip[k].data = imgs[i].data

\* two images of different types and bytes were saved
C7_Witness ==
  /\ pc = "saved"
  /\ LET imgs == ImagesOf(AllElements(doc))
     IN /\ Len(imgs) = 2
        /\ mime_to_ext(imgs[1].mime) # mime_to_ext(imgs[2].mime)
        /\ imgs[1].data # imgs[2].data

\* the names of the style records of a content part, in document order
StyleRecordNames(content_xml) ==
  LET records == SelectSeq(content_xml, LAMBDA e : e.type = "Start" /\ e.name = "style")
  IN [i \in 1..Len(records) |-> get_attr(records[i], "name")]

\* C8: no two style records of the content part have the same name.
C8_StyleNamesUnique ==
  \A k \in 1..Len(zip) :
    zip[k].name = <<"content.xml">> => IsInjective(StyleRecordNames(zip[k].data))

(***************************************************************************)
(* Format-B reader (format/pptx/reader.rs).  Attribute keys that carry a   *)
(* namespace prefix are written with it ("r:id", "r:embed"); a path is the *)
(* sequence of its segments, directories ending in "/" and the extension   *)
(* last.                                                                   *)
(***************************************************************************)
EMU_PER_PT == 12700

\* an attribute value read with parse::<i64>() or parse::<f64>(): the
\* number, or ok = FALSE for text that does not parse
Num(n) == [ok |-> TRUE, num |-> n]
BadNum == [ok |-> FALSE, num |-> 0]

\* emu as f64 / EMU_PER_PT, exact for whole hundredths of a point
emu_to_pt(emu) == (emu \div (EMU_PER_PT \div 100)) * (PtUnit \div 100)

\* font sizes are whole points in this model
half_pt_to_pt(half_pt) == half_pt \div 100

\* attr.key.local_name() of the prefixed keys
local_name(key) ==
  CASE key \in {"r:id", "p14:id"} -> "id"
    [] key = "r:embed"            -> "embed"
    [] OTHER                      -> key

\* full_key.ends_with(":id") || full_key == "r:id"
IsIdKey(full_key) == full_key \in {"r:id", "p14:id"}
\* full_key.ends_with(":embed") || full_key == "r:embed"
IsEmbedKey(full_key) == full_key = "r:embed"

\* the value of every id attribute of every sldId, in document order
parse_presentation(xml) ==
  LET ids == SelectSeq(BeforeErr(xml),
                       LAMBDA e : e.type \in {"Start", "Empty"} /\ e.name = "sldId")
  IN Flatten([i \in 1..Len(ids) |->
       LET refs == SelectSeq(ids[i].attrs, LAMBDA attr : IsIdKey(attr.key))
       IN [k \in 1..Len(refs) |-> refs[k].val]])

\* Id -> Target of every Relationship that has both
parse_rels(xml) ==
  FoldSeq(LAMBDA map, e :
            IF e.type \in {"Start", "Empty"} /\ e.name = "Relationship"
                 /\ get_attr(e, "Id") # <<>> /\ get_attr(e, "Target") # <<>>
              THEN MapInsert(map, get_attr(e, "Id"), get_attr(e, "Target"))
              ELSE map,
          <<>>, BeforeErr(xml))

IsDir(segment) == segment \in {"ppt/", "slides/", "_rels/", "media/", "../"}

\* the path up to and including its last "/"
DirOf(path) ==
  LET dirs == {i \in 1..Len(path) : IsDir(path[i])}
  IN IF dirs = {} THEN <<>>
     ELSE SubSeq(path, 1, CHOOSE i \in dirs : \A j \in dirs : j <= i)

resolve_path(base_dir, relative) ==
  IF Len(relative) > 0 /\ relative[1] = "../"
    THEN (IF Len(base_dir) > 1 THEN SubSeq(base_dir, 1, Len(base_dir) - 1) ELSE <<>>)
         \o Tail(relative)
    ELSE base_dir \o relative

\* slide_path.replace("slides/", "slides/_rels/") + ".rels"
SlideRelsPath(slide_path) ==
  Flatten([i \in 1..Len(slide_path) |->
             IF slide_path[i] = "slides/" THEN <<"slides/", "_rels/">>
             ELSE <<slide_path[i]>>])
  \o <<".rels">>

pptx_guess_mime(path) ==
  LET ext == IF Len(path) > 0 THEN path[Len(path)] ELSE ""
  IN CASE ext = ".png"             -> "image/png"
       [] ext \in {".jpg", ".jpeg"} -> "image/jpeg"
       [] ext = ".svg"             -> "image/svg+xml"
       [] ext = ".webp"            -> "image/webp"
       [] OTHER                    -> "image/png"

parse_emu_position(e) ==
  FoldSeq(LAMBDA at, attr :
            IF attr.key = "x" /\ attr.val.ok THEN [at EXCEPT !.x = emu_to_pt(attr.val.num)]
            ELSE IF attr.key = "y" /\ attr.val.ok THEN [at EXCEPT !.y = emu_to_pt(attr.val.num)]
            ELSE at,
          [x |-> 0, y |-> 0], e.attrs)

parse_emu_size(e) ==
  FoldSeq(LAMBDA sz, attr :
            IF attr.key = "cx" /\ attr.val.ok THEN [sz EXCEPT !.w = emu_to_pt(attr.val.num)]
            ELSE IF attr.key = "cy" /\ attr.val.ok THEN [sz EXCEPT !.h = emu_to_pt(attr.val.num)]
            ELSE sz,
          [w |-> 100 * PtUnit, h |-> 100 * PtUnit], e.attrs)

parse_run_properties(e, font) ==
  FoldSeq(LAMBDA f, attr :
            CASE attr.key = "sz" -> IF attr.val.ok
                                      THEN [f EXCEPT !.size = half_pt_to_pt(attr.val.num)]
                                      ELSE f
              [] attr.key = "b"  -> [f EXCEPT !.bold = (attr.val \in {"1", "true"})]
              [] attr.key = "i"  -> [f EXCEPT !.italic = (attr.val \in {"1", "true"})]
              [] OTHER           -> f,
          font, e.attrs)

\* the ShapeType of a prst value
PresetShape(val) ==
  CASE val \in {"rect", "roundRect", "snip1Rect", "snip2SameRect"} -> "Rectangle"
    [] val \in {"ellipse", "circle"}                               -> "Ellipse"
    [] val \in {"line", "straightConnector1"}                      -> "Line"
    [] OTHER                                                       -> "Rectangle"

\* reader.rs:224-256: Event::Start
SlideStart(st, e) ==
  CASE e.name = "sp" ->
         [st EXCEPT !.in_sp = TRUE, !.sp_shape_type = None, !.sp_fill_color = None,
                    !.sp_stroke_color = None, !.sp_stroke_width = None,
                    !.text_paragraphs = <<>>]
    [] e.name = "pic" -> [st EXCEPT !.in_pic = TRUE, !.pic_rel_id = <<>>]
    [] e.name = "txBody" /\ (st.in_sp \/ st.in_pic) ->
         [st EXCEPT !.in_tx_body = TRUE, !.text_paragraphs = <<>>]
    [] e.name = "p" /\ st.in_tx_body ->
         [st EXCEPT !.in_p = TRUE, !.text_runs = <<>>, !.para_align = "Left"]
    [] e.name = "r" /\ st.in_p ->
         [st EXCEPT !.in_r = TRUE, !.run_text = <<>>, !.run_font = FontStyle_default]
    [] OTHER -> st

\* reader.rs:297-312: one val attribute of an srgbClr outside a text body
TakeColor(st, attr) ==
  IF attr.key # "val" THEN st
  ELSE IF ~st.sp_fill_color.some
    THEN [st EXCEPT !.sp_fill_color = Color_from_hex(attr.val)]
    ELSE [st EXCEPT !.sp_stroke_color = Color_from_hex(attr.val)]

\* reader.rs:257-352: Event::Empty
SlideEmpty(st, e) ==
  CASE e.name = "off" /\ (st.in_sp \/ st.in_pic) ->
         LET at == parse_emu_position(e)
         IN IF st.in_pic THEN [st EXCEPT !.pic_bounds.x = at.x, !.pic_bounds.y = at.y]
            ELSE [st EXCEPT !.sp_bounds.x = at.x, !.sp_bounds.y = at.y]
    [] e.name = "ext" /\ (st.in_sp \/ st.in_pic) ->
         LET sz == parse_emu_size(e)
         IN IF st.in_pic THEN [st EXCEPT !.pic_bounds.w = sz.w, !.pic_bounds.h = sz.h]
            ELSE [st EXCEPT !.sp_bounds.w = sz.w, !.sp_bounds.h = sz.h]
    [] e.name = "prstGeom" /\ st.in_sp ->
         FoldSeq(LAMBDA state, attr :
                   IF attr.key = "prst"
                     THEN [state EXCEPT !.sp_shape_type = Some(PresetShape(attr.val))]
                     ELSE state,
                 st, e.attrs)
    [] e.name = "srgbClr" /\ st.in_sp /\ ~st.in_tx_body -> FoldSeq(TakeColor, st, e.attrs)
    [] e.name = "pPr" /\ st.in_p ->
         FoldSeq(LAMBDA state, attr :
                   IF attr.key = "algn"
                     THEN [state EXCEPT !.para_align = CASE attr.val = "ctr" -> "Center"
                                                         [] attr.val = "r"   -> "Right"
                                                         [] OTHER            -> "Left"]
                     ELSE state,
                 st, e.attrs)
    [] e.name = "rPr" /\ st.in_r -> [st EXCEPT !.run_font = parse_run_properties(e, @)]
    [] e.name \in {"latin", "cs"} /\ st.in_r ->
         FoldSeq(LAMBDA state, attr :
                   IF attr.key = "typeface" THEN [state EXCEPT !.run_font.family = attr.val]
                   ELSE state,
                 st, e.attrs)
    [] e.name \in {"blipFill", "blip"} /\ st.in_pic ->
         FoldSeq(LAMBDA state, attr :
                   IF IsEmbedKey(attr.key) THEN [state EXCEPT !.pic_rel_id = attr.val]
                   ELSE state,
                 st, e.attrs)
    [] OTHER -> st

\* reader.rs:353-359: Event::Text
SlideText(st, e) ==
  LET text == unescape(e.text)
  IN IF st.in_r /\ text.some THEN [st EXCEPT !.run_text = @ \o text.v] ELSE st

\* TextParagraph::full_text
full_text(para) == Flatten([k \in 1..Len(para.runs) |-> para.runs[k].text])

\* reader.rs:375-383 and 386-394: the Shape element of the open sp
SpShape(st) ==
  LET shape == ShapeElement_new(st.nextId, st.sp_bounds, st.sp_shape_type.v)
  IN [shape EXCEPT
        !.fill = IF st.sp_fill_color.some THEN Some(FillStyle_new(st.sp_fill_color.v))
                 ELSE None,
        !.stroke = IF st.sp_stroke_color.some
                     THEN Some(StrokeStyle_new(st.sp_stroke_color.v,
                                               IF st.sp_stroke_width.some
                                                 THEN st.sp_stroke_width.v ELSE 2 * PtUnit))
                     ELSE @]

\* slide.add_element of an element that drew the next id
SlideAdd(st, element) ==
  [st EXCEPT !.slide = add_element(@, element), !.nextId = @ + 1]

\* a variant of the closing step that adds the text and the shape of an sp
SlideEndSp_both(st) ==
  LET closed == [st EXCEPT !.in_sp = FALSE]
      text_elem == [TextElement_new(st.nextId, st.sp_bounds, <<>>) EXCEPT
                      !.paragraphs = st.text_paragraphs,
                      !.alignment = st.para_align]
      with_text == IF st.text_paragraphs # <<>>
                     THEN [SlideAdd(closed, text_elem) EXCEPT !.text_paragraphs = <<>>]
                     ELSE closed
  IN IF st.sp_shape_type.some THEN SlideAdd(with_text, SpShape(with_text)) ELSE with_text

\* reader.rs:363-396: </sp>
SlideEndSp(st) ==
  LET closed == [st EXCEPT !.in_sp = FALSE]
      has_text == \E k \in 1..Len(st.text_paragraphs) :
                    ~IsBlank(full_text(st.text_paragraphs[k]))
      text_elem == [TextElement_new(st.nextId, st.sp_bounds, <<>>) EXCEPT
                      !.paragraphs = st.text_paragraphs,
                      !.alignment = st.para_align]
  IN IF st.text_paragraphs # <<>>
       THEN (IF has_text
               THEN [SlideAdd(closed, text_elem) EXCEPT !.text_paragraphs = <<>>]
               ELSE IF st.sp_shape_type.some THEN SlideAdd(closed, SpShape(st))
               ELSE closed)
       ELSE IF st.sp_shape_type.some THEN SlideAdd(closed, SpShape(st))
       ELSE closed

\* reader.rs:397-410: </pic>
SlideEndPic(st, rels, slide_dir, archive) ==
  LET closed == [st EXCEPT !.in_pic = FALSE]
  IN IF st.pic_rel_id = <<>> \/ ~MapHas(rels, st.pic_rel_id) THEN closed
     ELSE LET img_path == resolve_path(slide_dir, MapGet(rels, st.pic_rel_id))
              data == read_zip_entry_bytes(archive, img_path)
          IN IF data.some
               THEN SlideAdd(closed, ImageElement_new(st.nextId, st.pic_bounds, data.v,
                                                      pptx_guess_mime(img_path)))
               ELSE closed

\* reader.rs:360-428: Event::End
SlideEnd(st, e, rels, slide_dir, archive) ==
  CASE e.name = "sp"     -> SlideEndSp(st)
    [] e.name = "pic"    -> SlideEndPic(st, rels, slide_dir, archive)
    [] e.name = "txBody" -> [st EXCEPT !.in_tx_body = FALSE]
    [] e.name = "p" /\ st.in_p ->
         [st EXCEPT !.in_p = FALSE,
                    !.text_paragraphs = Append(@, TextParagraph_new(st.text_runs)),
                    !.text_runs = <<>>]
    [] e.name = "r" /\ st.in_r ->
         IF st.run_text # <<>>
           THEN [st EXCEPT !.in_r = FALSE,
                           !.text_runs = Append(@, TextRun_new(st.run_text, st.run_font)),
                           !.run_text = <<>>]
           ELSE [st EXCEPT !.in_r = FALSE]
    [] OTHER -> st

SlidePassStep(st, e, rels, slide_dir, archive) ==
  CASE e.type = "Start" -> SlideStart(st, e)
    [] e.type = "Empty" -> SlideEmpty(st, e)
    [] e.type = "Text"  -> SlideText(st, e)
    [] e.type = "End"   -> SlideEnd(st, e, rels, slide_dir, archive)
    [] OTHER            -> st

\* the slide parse_slide returns and the next fresh id
SlideResult(st) == [slide |-> st.slide, nextId |-> st.nextId]

\* parse_slide: the slide takes the id id0, its elements the ids after it
parse_slide(xml, rels, slide_path, archive, id0) ==
  LET slide_dir == DirOf(slide_path)
      st0 == [slide |-> Slide_new(id0), nextId |-> id0 + 1,
              in_sp |-> FALSE, in_pic |-> FALSE, in_tx_body |-> FALSE,
              in_p |-> FALSE, in_r |-> FALSE,
              sp_bounds |-> Rect_new(0, 0, 100 * PtUnit, 100 * PtUnit),
              sp_shape_type |-> None, sp_fill_color |-> None,
              sp_stroke_color |-> None, sp_stroke_width |-> None,
              text_paragraphs |-> <<>>, text_runs |-> <<>>, run_text |-> <<>>,
              run_font |-> FontStyle_default, para_align |-> "Left",
              pic_bounds |-> Rect_new(0, 0, 100 * PtUnit, 100 * PtUnit),
              pic_rel_id |-> <<>>]
  IN SlideResult(FoldSeq(LAMBDA state, ev : SlidePassStep(state, ev, rels, slide_dir, archive),
                         st0, BeforeErr(xml)))

\* doc.slides.push(slide)
PushSlide(st, r) == [slides |-> Append(st.slides, r.slide), nextId |-> r.nextId]

\* a loader that passes over a reference it cannot follow
LoadSlideRef_skip(st, slide_ref, rel_map, archive) ==
  LET slide_path == IF MapHas(rel_map, slide_ref)
                      THEN <<"ppt/">> \o MapGet(rel_map, slide_ref) ELSE <<>>
      slide_xml == read_zip_entry(archive, slide_path)
  IN IF slide_path = <<>> \/ ~slide_xml.some THEN st
     ELSE PushSlide(st, parse_slide(slide_xml.v, <<>>, slide_path, archive, st.nextId))

\* pptx/reader.rs:36-64: one iteration of the loop over slide_refs
LoadSlideRef(st, slide_ref, rel_map, archive) ==
  LET slide_path == IF MapHas(rel_map, slide_ref)
                      THEN <<"ppt/">> \o MapGet(rel_map, slide_ref) ELSE <<>>
      slide_rels_xml == read_zip_entry(archive, SlideRelsPath(slide_path))
      slide_rel_map == parse_rels(IF slide_rels_xml.some THEN slide_rels_xml.v ELSE <<>>)
      slide_xml == read_zip_entry(archive, slide_path)
      empty == [slides |-> Append(st.slides, Slide_new(st.nextId)), nextId |-> st.nextId + 1]
  IN IF slide_path = <<>> THEN empty
     ELSE IF ~slide_xml.some THEN empty
     ELSE PushSlide(st, parse_slide(slide_xml.v, slide_rel_map, slide_path, archive,
                                    st.nextId))

\* pptx/reader.rs:66-68: a document without slides gets one
SlidesOrOne(st) ==
  IF st.slides = <<>>
    THEN [doc |-> [slides |-> <<Slide_new(st.nextId)>>], nextId |-> st.nextId + 1]
    ELSE [doc |-> [slides |-> st.slides], nextId |-> st.nextId]

\* load_document on the opened archive: fails when ppt/presentation.xml is
\* absent or unreadable
pptx_load_document(archive, id0) ==
  LET presentation_xml == read_zip_entry(archive, <<"ppt/presentation.xml">>)
      pres_rels == read_zip_entry(archive, <<"ppt/_rels/presentation.xml.rels">>)
  IN IF ~presentation_xml.some THEN [ok |-> FALSE, doc |-> [slides |-> <<>>], nextId |-> id0]
     ELSE LET slide_refs == parse_presentation(presentation_xml.v)
              rel_map == parse_rels(IF pres_rels.some THEN pres_rels.v ELSE <<>>)
          IN Loaded(SlidesOrOne(
               FoldSeq(LAMBDA state, ref : LoadSlideRef(state, ref, rel_map, archive),
                       [slides |-> <<>>, nextId |-> id0 + 1], slide_refs)))

\* load_document from the file
pptx_load_file(file, id0) ==
  IF ~ZipArchive_new(file).some
    THEN [ok |-> FALSE, doc |-> [slides |-> <<>>], nextId |-> id0]
    ELSE pptx_load_document(ZipArchive_new(file).v, id0)

(***************************************************************************)
(* Template instantiation (templates.rs).                                  *)
(***************************************************************************)
\* the empty string where a "#rrggbb" is expected
EmptyHex == [ok |-> FALSE, r |-> -1, g |-> -1, b |-> -1]

\* templates.rs:88-133: one template element added to the slide
AddTemplateElement(st, tmpl_elem) ==
  LET bounds == Rect_new(tmpl_elem.x, tmpl_elem.y, tmpl_elem.w, tmpl_elem.h)
  IN CASE tmpl_elem.element_type = "text" ->
            LET color == Color_from_hex(tmpl_elem.color)
                font == [family |-> tmpl_elem.font_family, size |-> tmpl_elem.font_size,
                         bold |-> tmpl_elem.bold, italic |-> tmpl_elem.italic,
                         color |-> IF color.some THEN color.v ELSE Color_black]
                text == [TextElement_new(st.nextId, bounds, <<>>) EXCEPT
                           !.paragraphs = <<TextParagraph_new(<<TextRun_new(tmpl_elem.text, font)>>)>>,
                           !.alignment = CASE tmpl_elem.alignment = "center" -> "Center"
                                           [] tmpl_elem.alignment = "right"  -> "Right"
                                           [] OTHER                          -> "Left"]
            IN [st EXCEPT !.slide = add_element(@, text), !.nextId = @ + 1]
       [] tmpl_elem.element_type = "shape" ->
            LET shape_type == CASE tmpl_elem.shape \in {"ellipse", "circle"} -> "Ellipse"
                                [] tmpl_elem.shape = "line"                  -> "Line"
                                [] OTHER                                     -> "Rectangle"
                shape == ShapeElement_new(st.nextId, bounds, shape_type)
                fill_color == Color_from_hex(tmpl_elem.fill_color)
                stroke_color == Color_from_hex(tmpl_elem.stroke_color)
                filled == IF tmpl_elem.fill_color # EmptyHex
                            THEN [shape EXCEPT !.fill = IF fill_color.some
                                                          THEN Some(FillStyle_new(fill_color.v))
                                                          ELSE None]
                            ELSE shape
                stroked == IF tmpl_elem.stroke_color # EmptyHex
                             THEN [filled EXCEPT !.stroke =
                                     IF stroke_color.some
                                       THEN Some(StrokeStyle_new(stroke_color.v,
                                              IF tmpl_elem.stroke_width > 0
                                                THEN tmpl_elem.stroke_width ELSE 2 * PtUnit))
                                       ELSE None]
                             ELSE filled
            IN [st EXCEPT !.slide = add_element(@, stroked), !.nextId = @ + 1]
       [] OTHER -> st

\* templates.rs:83-136: one template slide
AddTemplateSlide(st, tmpl_slide) ==
  LET bg_color == Color_from_hex(tmpl_slide.background)
      slide == [Slide_new(st.nextId) EXCEPT
                  !.background = IF bg_color.some THEN bg_color.v ELSE @]
      done == FoldSeq(AddTemplateElement, [slide |-> slide, nextId |-> st.nextId + 1],
                      tmpl_slide.elements)
  IN [slides |-> Append(st.slides, done.slide), nextId |-> done.nextId]

create_document_from_template(template, id0) ==
  LET st == FoldSeq(AddTemplateSlide, [slides |-> <<>>, nextId |-> id0 + 1], template.slides)
  IN IF st.slides = <<>>
       THEN [doc |-> [slides |-> <<Slide_new(st.nextId)>>], nextId |-> st.nextId + 1]
       ELSE [doc |-> [slides |-> st.slides], nextId |-> st.nextId]

(***************************************************************************)
(* Canvas interaction (ui/canvas/interaction.rs, ui/canvas_view.rs).       *)
(***************************************************************************)
Max(a, b) == IF a >= b THEN a ELSE b

HandlePositions ==
  {"TopLeft", "TopCenter", "TopRight", "MiddleLeft", "MiddleRight",
   "BottomLeft", "BottomCenter", "BottomRight"}

normalize_rect(x1, y1, x2, y2) ==
  Rect_new(Min(x1, x2), Min(y1, y2), Max(Abs(x2 - x1), PtUnit), Max(Abs(y2 - y1), PtUnit))

resize_bounds(orig, handle, dx, dy) ==
  LET x == IF handle \in {"TopLeft", "MiddleLeft", "BottomLeft"} THEN orig.x + dx ELSE orig.x
      y == IF handle \in {"TopLeft", "TopCenter", "TopRight"} THEN orig.y + dy ELSE orig.y
      w == CASE handle \in {"TopLeft", "MiddleLeft", "BottomLeft"}    -> orig.w - dx
             [] handle \in {"TopRight", "MiddleRight", "BottomRight"} -> orig.w + dx
             [] OTHER                                                 -> orig.w
      h == CASE handle \in {"TopLeft", "TopCenter", "TopRight"}          -> orig.h - dy
             [] handle \in {"BottomLeft", "BottomCenter", "BottomRight"} -> orig.h + dy
             [] OTHER                                                    -> orig.h
      min_size == 20 * PtUnit
  IN Rect_new(x, y, Max(w, min_size), Max(h, min_size))

\* DragOperation::apply
DragOperation_apply(op, dx, dy) ==
  CASE op.kind = "Move" ->
         Rect_new(op.orig_bounds.x + dx, op.orig_bounds.y + dy,
                  op.orig_bounds.w, op.orig_bounds.h)
    [] op.kind = "Resize" -> resize_bounds(op.orig_bounds, op.handle, dx, dy)
    [] op.kind = "Create" ->
         normalize_rect(op.start.x, op.start.y, op.start.x + dx, op.start.y + dy)

\* a variant of create_element_for_tool that makes a text box for every
\* creation tool
create_element_for_tool_text(tool, bounds, id) ==
  IF tool \in {"Text", "Rectangle", "Ellipse", "Line"}
    THEN Some(TextElement_new(id, bounds, <<"T", "e", "x", "t">>))
    ELSE None

create_element_for_tool(tool, bounds, id) ==
  CASE tool = "Pointer" -> None
    [] tool = "Text" -> Some(TextElement_new(id, bounds, <<"T", "e", "x", "t">>))
    [] tool \in {"Rectangle", "Ellipse", "Line"} -> Some(ShapeElement_new(id, bounds, tool))
    [] tool = "Image" -> None

(***************************************************************************)
(* Editing.  Fresh ids (Uuid::new_v4) are the successive values of        *)
(* nextId; MaxIds caps how many a run draws.                               *)
(***************************************************************************)
Pt(n) == n * PtUnit

\* files to open: containers save_document wrote, one cut short inside its
\* first page, and one without a content part
ArchiveDocument ==
  MakeDocument(<<CHOOSE t \in SampleTexts : t.alignment = "Left",
                 CHOOSE i \in SampleImages : i.mime = "image/jpeg">>, <<2>>, Blue)
CutShort(archive) ==
  [i \in 1..Len(archive) |->
     IF archive[i].name = <<"content.xml">>
       THEN [archive[i] EXCEPT !.data =
               LET pages == {k \in 1..Len(@) : @[k].type = "Start" /\ @[k].name = "page"}
               IN IF pages = {} THEN @
                  ELSE SubSeq(@, 1, CHOOSE k \in pages : \A m \in pages : k <= m)
                       \o <<[type |-> "Err", name |-> "", attrs |-> <<>>, text |-> <<>>]>>]
       ELSE archive[i]]
SampleArchives ==
  {save_document(ArchiveDocument), CutShort(save_document(ArchiveDocument)), <<MimetypeEntry>>}

\* Format-B packages: no presentation part; no slide; a slide with a
\* shape, a slide whose part is absent and a slide without a relationship
Relationship(id, target) == EmptyTag("Relationship", <<Attr("Id", id), Attr("Target", target)>>)
Presentation(refs) ==
  ZipEntry(<<"ppt/presentation.xml">>, "Deflated",
           <<StartTag("presentation", <<>>), StartTag("sldIdLst", <<>>)>>
           \o [i \in 1..Len(refs) |-> EmptyTag("sldId", <<Attr("id", <<"256">>),
                                                          Attr("r:id", refs[i])>>)]
           \o <<EndTag("sldIdLst"), EndTag("presentation")>>)
SamplePackages ==
  { <<>>,
    <<Presentation(<<>>)>>,
    <<Presentation(<<<<"rId1">>, <<"rId2">>, <<"rId3">>>>),
      ZipEntry(<<"ppt/_rels/presentation.xml.rels">>, "Deflated",
               <<Relationship(<<"rId1">>, <<"slides/", "slide1", ".xml">>),
                 Relationship(<<"rId2">>, <<"slides/", "slide2", ".xml">>)>>),
      ZipEntry(<<"ppt/", "slides/", "slide1", ".xml">>, "Deflated",
               <<StartTag("sp", <<>>),
                 EmptyTag("ext", <<Attr("cx", Num(20 * EMU_PER_PT)),
                                   Attr("cy", Num(20 * EMU_PER_PT))>>),
                 EmptyTag("prstGeom", <<Attr("prst", "ellipse")>>),
                 EndTag("sp")>>)>> }

TemplateElement(element_type, shape, alignment) ==
  [element_type |-> element_type, x |-> Pt(10), y |-> Pt(10), w |-> Pt(40), h |-> Pt(20),
   text |-> <<"T">>, font_family |-> <<"S", "a", "n", "s">>, font_size |-> 24,
   bold |-> FALSE, italic |-> FALSE, color |-> Hex(0, 0, 0), alignment |-> alignment,
   shape |-> shape, fill_color |-> EmptyHex, stroke_color |-> Hex(0, 0, 0), stroke_width |-> 0]
SampleTemplates ==
  { [slides |-> <<>>],
    [slides |-> <<[background |-> Hex(53, 132, 228),
                   elements |-> <<TemplateElement("text", "", "center"),
                                  TemplateElement("shape", "line", ""),
                                  TemplateElement("image", "", "")>>]>>] }

Init ==
  /\ doc = Document_new(1)
  /\ nextId = 2
  /\ pc = "ready"
  /\ zip = <<>>
  /\ imgQueue = <<>>
  /\ loaded = None
  /\ lastOp = [op |-> "init", slides |-> 0]
  /\ input = <<>>
  /\ output = None

ElementCount == Len(AllElements(doc))
SlideIndices == 0..(Len(doc.slides) - 1)

AddSlide ==
  /\ Len(doc.slides) < MaxSlides
  /\ nextId <= MaxIds
  /\ doc' = add_slide(doc, nextId)
  /\ nextId' = nextId + 1
  /\ lastOp' = Did("AddSlide")
  /\ UNCHANGED <<pc, zip, imgQueue, loaded, input, output>>

\* the index may lie beyond the end
InsertSlide ==
  /\ Len(doc.slides) < MaxSlides
  /\ nextId <= MaxIds
  /\ \E index \in 0..(MaxSlides + 1) : doc' = insert_slide(doc, index, nextId)
  /\ nextId' = nextId + 1
  /\ lastOp' = Did("InsertSlide")
  /\ UNCHANGED <<pc, zip, imgQueue, loaded, input, output>>

RemoveSlide ==
  /\ \E index \in 0..MaxSlides : doc' = remove_slide(doc, index)
  /\ lastOp' = Did("RemoveSlide")
  /\ UNCHANGED <<nextId, pc, zip, imgQueue, loaded, input, output>>

MoveSlide ==
  /\ \E from, to \in 0..MaxSlides : doc' = move_slide(doc, from, to)
  /\ lastOp' = Did("MoveSlide")
  /\ UNCHANGED <<nextId, pc, zip, imgQueue, loaded, input, output>>

\* the bounds of the element with this id on the slide replaced, as the
\* drag-update handler does
SetBounds(slide, id, bounds) ==
  LET hits == {k \in 1..Len(slide.elements) : slide.elements[k].id = id}
  IN IF hits = {} THEN slide
     ELSE [slide EXCEPT !.elements[CHOOSE k \in hits : \A m \in hits : k <= m].bounds = bounds]

CreateTools == {"Text", "Line", "Image"}
CreateStart == [x |-> Pt(10), y |-> Pt(10)]
CreateDrags == {<<Pt(3), Pt(3)>>, <<-Pt(5), Pt(20)>>}

\* canvas_view.rs drag-end with a Create operation on slide idx
CreateElement ==
  /\ ElementCount < MaxCreated
  /\ nextId <= MaxIds
  /\ \E idx \in SlideIndices, tool \in CreateTools, drag \in CreateDrags :
       LET dx == drag[1]
           dy == drag[2]
           bounds == normalize_rect(CreateStart.x, CreateStart.y,
                                    CreateStart.x + dx, CreateStart.y + dy)
           element == create_element_for_tool(tool, bounds, nextId)
       IN IF Abs(dx) < Pt(5) /\ Abs(dy) < Pt(5) THEN UNCHANGED <<doc, nextId>>
          ELSE IF element.some
            THEN /\ doc' = [doc EXCEPT !.slides[idx + 1] = add_element(@, element.v)]
                 /\ nextId' = nextId + 1
            ELSE UNCHANGED <<doc, nextId>>
  /\ lastOp' = Did("CreateElement")
  /\ UNCHANGED <<pc, zip, imgQueue, loaded, input, output>>

\* window.rs places an inserted image at (100, 100, 400, 300) pt; lengths of
\* this model stay below 107 pt, so a tenth of that rectangle stands for it
InsertImageBounds == Rect_new(Pt(10), Pt(10), Pt(40), Pt(30))

InsertImage ==
  /\ ElementCount < MaxCreated
  /\ nextId <= MaxIds
  /\ \E idx \in SlideIndices :
       doc' = [doc EXCEPT !.slides[idx + 1] =
                 add_element(@, ImageElement_new(nextId, InsertImageBounds, <<137, 80>>,
                                                 "image/png"))]
  /\ nextId' = nextId + 1
  /\ lastOp' = Did("InsertImage")
  /\ UNCHANGED <<pc, zip, imgQueue, loaded, input, output>>

DragHandles == {"TopLeft", "BottomRight"}
MaxCoordinate == Pt(50)

\* canvas_view.rs drag-update with a Move or a Resize operation on the
\* selected element: the element's bounds become op.apply(dx, dy)
DragElement ==
  /\ \E idx \in SlideIndices :
       \E k \in 1..Len(doc.slides[idx + 1].elements) :
         \E op \in {[kind |-> "Move", orig_bounds |-> doc.slides[idx + 1].elements[k].bounds]}
                   \cup {[kind |-> "Resize", handle |-> h,
                          orig_bounds |-> doc.slides[idx + 1].elements[k].bounds] :
                           h \in DragHandles} :
           LET new_bounds == DragOperation_apply(op, Pt(10), Pt(10))
           IN /\ new_bounds.x + new_bounds.w <= MaxCoordinate
              /\ new_bounds.y + new_bounds.h <= MaxCoordinate
              /\ doc' = [doc EXCEPT !.slides[idx + 1] =
                           SetBounds(@, doc.slides[idx + 1].elements[k].id, new_bounds)]
  /\ lastOp' = Did("DragElement")
  /\ UNCHANGED <<nextId, pc, zip, imgQueue, loaded, input, output>>

\* canvas_view.rs Delete / BackSpace with the element selected
DeleteElement ==
  /\ \E idx \in SlideIndices :
       \E k \in 1..Len(doc.slides[idx + 1].elements) :
         doc' = [doc EXCEPT !.slides[idx + 1] =
                   remove_element(@, doc.slides[idx + 1].elements[k].id)]
  /\ lastOp' = Did("DeleteElement")
  /\ UNCHANGED <<nextId, pc, zip, imgQueue, loaded, input, output>>

\* window.rs open action: the document is replaced when the load succeeds
\* (a load draws two ids at least)
Replace(r) ==
  /\ nextId < MaxIds
  /\ r.nextId <= MaxIds + 1
  /\ doc' = IF r.ok THEN r.doc ELSE doc
  /\ nextId' = r.nextId

OpenOdp ==
  /\ \E archive \in SampleArchives : Replace(odp_load_document(archive, nextId))
  /\ lastOp' = Did("OpenOdp")
  /\ UNCHANGED <<pc, zip, imgQueue, loaded, input, output>>

OpenPptx ==
  /\ \E archive \in SamplePackages : Replace(pptx_load_document(archive, nextId))
  /\ lastOp' = Did("OpenPptx")
  /\ UNCHANGED <<pc, zip, imgQueue, loaded, input, output>>

FromTemplate ==
  /\ \E template \in SampleTemplates :
       LET r == create_document_from_template(template, nextId)
       IN Replace([ok |-> TRUE, doc |-> r.doc, nextId |-> r.nextId])
  /\ lastOp' = Did("FromTemplate")
  /\ UNCHANGED <<pc, zip, imgQueue, loaded, input, output>>

Next ==
  \/ AddSlide \/ InsertSlide \/ RemoveSlide \/ MoveSlide
  \/ CreateElement \/ InsertImage \/ DragElement \/ DeleteElement
  \/ OpenOdp \/ OpenPptx \/ FromTemplate

Spec == Init /\ [][Next]_vars

(***************************************************************************)
(* Slides and ids while editing.                                           *)
(***************************************************************************)
\* C9: the document has at least one slide after any sequence of add_slide,
\* insert_slide, remove_slide and move_slide from Document::new(), and after
\* the Format-A reader, the Format-B reader and template instantiation.
C9_AtLeastOneSlide == Len(doc.slides) >= 1

\* remove_slide was asked to remove the only slide
C9_Witness == lastOp.op = "RemoveSlide" /\ lastOp.slides = 1 /\ Len(doc.slides) = 1

SlideIds(d) == [i \in 1..Len(d.slides) |-> d.slides[i].id]
ElementIds(d) == [k \in 1..Len(AllElements(d)) |-> AllElements(d)[k].id]
IdsDistinct == IsInjective(SlideIds(doc)) /\ IsInjective(ElementIds(doc))

\* each slide's id with the ids of its elements, in order
IdLayout(d) ==
  [i \in 1..Len(d.slides) |->
     [id |-> d.slides[i].id,
      elements |-> [k \in 1..Len(d.slides[i].elements) |-> d.slides[i].elements[k].id]]]
Range(f) == {f[x] : x \in DOMAIN f}

IdsKept ==
  /\ lastOp'.op = "DragElement" => IdLayout(doc') = IdLayout(doc)
  /\ lastOp'.op = "MoveSlide" =>
       /\ Len(doc'.slides) = Len(doc.slides)
       /\ Range(IdLayout(doc')) = Range(IdLayout(doc))

\* C10: with fresh ids, the ids of the slides are pairwise distinct and the
\* ids of the elements of the whole document are pairwise distinct at all
\* times; moving or resizing an element, or moving a slide, changes no id.
C10_IdsDistinctAndKept == []IdsDistinct /\ [][IdsKept]_vars

\* an element of a document with two slides and two elements was dragged
C10_Witness ==
  /\ lastOp.op = "DragElement"
  /\ Len(doc.slides) = 2
  /\ Len(AllElements(doc)) = 2

(***************************************************************************)
(* Files of other producers.  input is the file to open with what it was   *)
(* built from (about); output is what load_document returned.              *)
(***************************************************************************)
Opened == pc = "opened"

\* window.rs open action on a .odp file
OpenOdpFile ==
  /\ pc = "file"
  /\ input.format = "odp"
  /\ output' = odp_load_file(input.file, nextId)
  /\ doc' = IF output'.ok THEN output'.doc ELSE doc
  /\ nextId' = output'.nextId
  /\ pc' = "opened"
  /\ lastOp' = Did("OpenOdpFile")
  /\ UNCHANGED <<zip, imgQueue, loaded, input>>

\* window.rs open action on a .pptx file
OpenPptxFile ==
  /\ pc = "file"
  /\ input.format = "pptx"
  /\ output' = pptx_load_file(input.file, nextId)
  /\ doc' = IF output'.ok THEN output'.doc ELSE doc
  /\ nextId' = output'.nextId
  /\ pc' = "opened"
  /\ lastOp' = Did("OpenPptxFile")
  /\ UNCHANGED <<zip, imgQueue, loaded, input>>

ReaderNext == OpenOdpFile \/ OpenPptxFile

ReaderInitOver(inputs) ==
  /\ doc = Document_new(1)
  /\ nextId = 2
  /\ pc = "file"
  /\ zip = <<>>
  /\ imgQueue = <<>>
  /\ loaded = None
  /\ lastOp = [op |-> "init", slides |-> 0]
  /\ input \in inputs
  /\ output = None

(***************************************************************************)
(* Format-A content parts written by hand.                                 *)
(***************************************************************************)
PngPath == <<"Pictures/image", 0, "png">>
AbsentPath == <<"Pictures/image", 7, "png">>

\* the events of one element of a page
ElementXml(kind) ==
  CASE kind = "Rectangle" ->
         <<EmptyTag("rect", <<Attr("style-name", <<"gr", 1>>)>> \o BoundsAttrs(GridBounds))>>
    [] kind = "Ellipse" ->
         <<EmptyTag("ellipse", BoundsAttrs(StepBounds))>>
    [] kind = "Text" ->
         <<StartTag("frame", BoundsAttrs(GridBounds)), StartTag("text-box", <<>>),
           StartTag("p", <<>>), StartTag("span", <<>>), TextEv(<<"H", "i">>),
           EndTag("span"), EndTag("p"), EndTag("text-box"), EndTag("frame")>>
    [] kind = "Image" ->
         <<StartTag("frame", BoundsAttrs(GridBounds)),
           EmptyTag("image", <<Attr("href", PngPath)>>), EndTag("frame")>>
    [] kind = "MissingImage" ->
         <<StartTag("frame", BoundsAttrs(GridBounds)),
           EmptyTag("image", <<Attr("href", AbsentPath)>>), EndTag("frame")>>

\* the malformed point of a part
ErrEv == [type |-> "Err", name |-> "", attrs |-> <<>>, text |-> <<>>]

\* a page: self-closing, or open and close tags around its elements; the
\* part turns malformed after the first `broken` elements (-1: it does not)
PageXml(page, broken) ==
  IF page.self THEN <<EmptyTag("page", <<Attr("name", <<"Slide">>)>>)>>
  ELSE <<StartTag("page", <<Attr("name", <<"Slide">>)>>)>>
       \o Flatten([k \in 1..Len(page.elements) |->
                     (IF broken = k - 1 THEN <<ErrEv>> ELSE <<>>)
                     \o ElementXml(page.elements[k])])
       \o (IF broken = Len(page.elements) THEN <<ErrEv>> ELSE <<>>)
       \o <<EndTag("page")>>

\* the content part of the pages; broken = [page, after] is the malformed
\* point (page 0: none)
ContentXml(pages, broken) ==
  <<DeclEv, StartTag("document-content", <<>>), StartTag("body", <<>>),
    StartTag("presentation", <<>>)>>
  \o Flatten([i \in 1..Len(pages) |->
                PageXml(pages[i], IF broken.page = i THEN broken.after ELSE -1)])
  \o <<EndTag("presentation"), EndTag("body"), EndTag("document-content")>>

OdpFile(content_xml) ==
  File(<<MimetypeEntry, ContentEntry(content_xml),
         ZipEntry(PngPath, "Deflated", <<137, 80>>)>>)

OpenPage(elements) == [self |-> FALSE, elements |-> elements]
SelfClosedPage == [self |-> TRUE, elements |-> <<>>]

SamplePages ==
  { OpenPage(<<>>), SelfClosedPage,
    OpenPage(<<"Rectangle", "Text">>),
    OpenPage(<<"Image", "MissingImage", "Ellipse">>) }

NotBroken == [page |-> 0, after |-> 0]

\* the malformed points of the pages: inside an open page, between two of
\* its elements or at one of its ends
BreaksOf(pages) ==
  { [page |-> i, after |-> k] :
      i \in {j \in 1..Len(pages) : ~pages[j].self}, k \in 0..3 }

PagesInput(pages, broken) ==
  [format |-> "odp", file |-> OdpFile(ContentXml(pages, broken)),
   about |-> [kind |-> "pages", pages |-> pages, broken |-> broken]]

PagesInputs ==
  UNION { { PagesInput(pages, broken) :
              broken \in {NotBroken} \cup
                         {b \in BreaksOf(pages) : b.after <= Len(pages[b.page].elements)} } :
          pages \in SeqsUpTo(SamplePages, MaxSlides) }

\* a content part without pages: shapes directly in the presentation element
NoPageInput ==
  [format |-> "odp",
   file |-> OdpFile(<<DeclEv, StartTag("document-content", <<>>), StartTag("body", <<>>),
                      StartTag("presentation", <<>>)>>
                    \o ElementXml("Rectangle") \o ElementXml("Text")
                    \o <<EndTag("presentation"), EndTag("body"),
                         EndTag("document-content")>>),
   about |-> [kind |-> "pages", pages |-> <<>>, broken |-> NotBroken]]

(***************************************************************************)
(* Format-B packages written by hand.                                      *)
(***************************************************************************)
RefId(i) == <<"rId", i>>
SlideNames == <<"slide1", "slide2", "slide3", "slide4", "slide5">>
SlideTarget(i) == <<"slides/", SlideNames[i], ".xml">>
SlidePath(i) == <<"ppt/">> \o SlideTarget(i)
MediaTarget == <<"../", "media/", "image1", ".png">>
MediaPath == <<"ppt/", "media/", "image1", ".png">>

PresentationRels(rels) ==
  ZipEntry(<<"ppt/_rels/presentation.xml.rels">>, "Deflated",
           <<StartTag("Relationships", <<>>)>> \o rels \o <<EndTag("Relationships")>>)
SlidePart(i, xml) == ZipEntry(SlidePath(i), "Deflated", xml)
SlideRels(i, rels) ==
  ZipEntry(SlideRelsPath(SlidePath(i)), "Deflated",
           <<StartTag("Relationships", <<>>)>> \o rels \o <<EndTag("Relationships")>>)
MediaEntry == ZipEntry(MediaPath, "Deflated", <<137, 80>>)

\* the position and size of a shape or picture
Xfrm ==
  <<StartTag("xfrm", <<>>),
    EmptyTag("off", <<Attr("x", Num(10 * EMU_PER_PT)), Attr("y", Num(5 * EMU_PER_PT))>>),
    EmptyTag("ext", <<Attr("cx", Num(20 * EMU_PER_PT)), Attr("cy", Num(20 * EMU_PER_PT))>>),
    EndTag("xfrm")>>

SolidFill(hex) ==
  <<StartTag("solidFill", <<>>), EmptyTag("srgbClr", <<Attr("val", hex)>>),
    EndTag("solidFill")>>

\* a shape: its properties with the solid colors `colors` in order, then its
\* text body
SpXml(prst, colors, body) ==
  <<StartTag("sp", <<>>), StartTag("spPr", <<>>)>> \o Xfrm
  \o <<EmptyTag("prstGeom", <<Attr("prst", prst)>>)>>
  \o Flatten([k \in 1..Len(colors) |-> SolidFill(colors[k])])
  \o <<EndTag("spPr")>> \o body \o <<EndTag("sp")>>

\* a picture that refers to the relationship `embed`
PicXml(embed) ==
  <<StartTag("pic", <<>>), StartTag("blipFill", <<>>),
    EmptyTag("blip", <<Attr("r:embed", embed)>>), EndTag("blipFill"),
    StartTag("spPr", <<>>)>> \o Xfrm \o <<EndTag("spPr"), EndTag("pic")>>

\* a text body of one paragraph with one run; the run properties hold the
\* solid colors `colors`
TxBody(text, colors) ==
  <<StartTag("txBody", <<>>), StartTag("p", <<>>), StartTag("r", <<>>),
    StartTag("rPr", <<Attr("sz", Num(2400))>>)>>
  \o Flatten([k \in 1..Len(colors) |-> SolidFill(colors[k])])
  \o <<EndTag("rPr"), StartTag("t", <<>>), TextEv(text), EndTag("t"),
       EndTag("r"), EndTag("p"), EndTag("txBody")>>

SlideXml(shapes) ==
  <<DeclEv, StartTag("sld", <<>>), StartTag("cSld", <<>>), StartTag("spTree", <<>>)>>
  \o shapes \o <<EndTag("spTree"), EndTag("cSld"), EndTag("sld")>>

\* a package of slides; slides[i].target says whether the presentation
\* relationships name the part of slide i, slides[i].entries are the
\* entries that belong to the slide
PptxFile(slides, with_rels) ==
  File(<<Presentation([i \in 1..Len(slides) |-> RefId(i)])>>
       \o (IF with_rels
             THEN <<PresentationRels(Flatten([i \in 1..Len(slides) |->
                      IF slides[i].target
                        THEN <<Relationship(RefId(i), SlideTarget(i))>> ELSE <<>>]))>>
             ELSE <<>>)
       \o Flatten([i \in 1..Len(slides) |-> slides[i].entries]))

(***************************************************************************)
(* Containers with parts left out.                                         *)
(***************************************************************************)
\* the layout part; broken says whether it turns malformed before or after
\* its page-layout-properties element, or not at all ("no")
LayoutXml(attrs, broken) ==
  <<DeclEv, StartTag("document-styles", <<>>), StartTag("automatic-styles", <<>>),
    StartTag("page-layout", <<>>)>>
  \o (IF broken = "before" THEN <<ErrEv>> ELSE <<>>)
  \o <<EmptyTag("page-layout-properties", attrs)>>
  \o (IF broken = "after" THEN <<ErrEv>> ELSE <<>>)
  \o <<EndTag("page-layout"), EndTag("automatic-styles"), EndTag("document-styles")>>

OdpParts == {"content.xml", "styles.xml", "meta.xml"}
PptxParts == {"presentation.xml", "presentation.xml.rels", "slide.xml", "slide.xml.rels"}

\* the Format-A container that has the parts `parts`
OdpContainer(parts) ==
  File(<<MimetypeEntry>>
       \o (IF "meta.xml" \in parts THEN <<MetaEntry(Document_new(1))>> ELSE <<>>)
       \o (IF "styles.xml" \in parts
             THEN <<ZipEntry(<<"styles.xml">>, "Deflated", LayoutXml(<<>>, "no"))>> ELSE <<>>)
       \o (IF "content.xml" \in parts
             THEN <<ContentEntry(ContentXml(<<OpenPage(<<"Rectangle">>)>>, NotBroken))>>
             ELSE <<>>))

\* the Format-B container that has the parts `parts`: one slide with a
\* shape and a picture
PptxContainer(parts) ==
  LET slide == [target |-> TRUE,
                entries |->
                  (IF "slide.xml" \in parts
                     THEN <<SlidePart(1, SlideXml(SpXml("rect", <<>>, <<>>)
                                                  \o PicXml(RefId(1))))>>
                     ELSE <<>>)
                  \o (IF "slide.xml.rels" \in parts
                        THEN <<SlideRels(1, <<Relationship(RefId(1), MediaTarget)>>)>>
                        ELSE <<>>)
                  \o <<MediaEntry>>]
      package == PptxFile(<<slide>>, "presentation.xml.rels" \in parts)
  IN IF "presentation.xml" \in parts THEN package
     ELSE File(Tail(package.entries))

ContainerInput(format, is_zip, parts) ==
  [format |-> format,
   file |-> IF ~is_zip THEN NotZip
            ELSE IF format = "odp" THEN OdpContainer(parts) ELSE PptxContainer(parts),
   about |-> [kind |-> "container", zip |-> is_zip, parts |-> parts]]

\* files that are no ZIP container, and containers with every choice of parts
ContainerInputs ==
  {ContainerInput("odp", FALSE, OdpParts), ContainerInput("pptx", FALSE, PptxParts)}
  \cup {ContainerInput("odp", TRUE, parts) : parts \in SUBSET OdpParts}
  \cup {ContainerInput("pptx", TRUE, parts) : parts \in SUBSET PptxParts}

(***************************************************************************)
(* Layout parts: page-width and page-height absent, parseable ("good") or  *)
(* not ("bad").                                                            *)
(***************************************************************************)
GoodWidth == Dim(20000, "cm")
GoodHeight == Dim(10000, "in")

LayoutAttrs(width, height) ==
  (CASE width = "good" -> <<Attr("page-width", GoodWidth)>>
     [] width = "bad"  -> <<Attr("page-width", BadDim)>>
     [] OTHER          -> <<>>)
  \o <<Attr("print-orientation", <<"landscape">>)>>
  \o (CASE height = "good" -> <<Attr("page-height", GoodHeight)>>
        [] height = "bad"  -> <<Attr("page-height", BadDim)>>
        [] OTHER           -> <<>>)

LayoutInput(part, width, height, broken) ==
  [format |-> "odp",
   file |-> File(<<MimetypeEntry>>
                 \o (IF part
                       THEN <<ZipEntry(<<"styles.xml">>, "Deflated",
                                       LayoutXml(LayoutAttrs(width, height), broken))>>
                       ELSE <<>>)
                 \o <<ContentEntry(ContentXml(<<OpenPage(<<"Rectangle">>)>>, NotBroken))>>),
   about |-> [kind |-> "layout", part |-> part, width |-> width, height |-> height,
              broken |-> broken]]

LayoutInputs ==
  {LayoutInput(FALSE, "absent", "absent", "no")}
  \cup { LayoutInput(TRUE, width, height, broken) :
           width \in {"absent", "good", "bad"}, height \in {"absent", "good", "bad"},
           broken \in {"no", "before", "after"} }

(***************************************************************************)
(* Format-B slides with a picture between a rectangle, a text and an       *)
(* ellipse.  The picture's reference is "resolved", or not: its embed id   *)
(* is not in the slide's relationships ("no_id"), the target names no      *)
(* entry ("no_entry"), the slide has no relationship part ("no_rels"), or  *)
(* the picture has an empty embed id ("no_embed").                         *)
(***************************************************************************)
PictureRefs == {"resolved", "no_id", "no_entry", "no_rels", "no_embed"}

PictureInput(ref) ==
  LET embed == CASE ref = "no_id"    -> RefId(2)
                 [] ref = "no_embed" -> <<>>
                 [] OTHER            -> RefId(1)
      slide == [target |-> TRUE,
                entries |->
                  <<SlidePart(1, SlideXml(SpXml("rect", <<>>, <<>>)
                                          \o PicXml(embed)
                                          \o SpXml("rect", <<>>, TxBody(<<"H", "i">>, <<>>))
                                          \o SpXml("ellipse", <<>>, <<>>)))>>
                  \o (IF ref = "no_rels" THEN <<>>
                      ELSE <<SlideRels(1, <<Relationship(RefId(1), MediaTarget)>>)>>)
                  \o (IF ref = "no_entry" THEN <<>> ELSE <<MediaEntry>>)]
  IN [format |-> "pptx", file |-> PptxFile(<<slide>>, TRUE),
      about |-> [kind |-> "picture", ref |-> ref]]

PictureInputs == {PictureInput(ref) : ref \in PictureRefs}

(***************************************************************************)
(* Format-B presentations of up to MaxRefs slide references.  A reference  *)
(* is "ok" (slide i has i rectangles), has no relationship ("no_target"),  *)
(* or its part is "absent", "unreadable" (not UTF-8) or "malformed" after  *)
(* its first rectangle.                                                    *)
(***************************************************************************)
MaxRefs == 3
RefStates == {"ok", "no_target", "absent", "unreadable", "malformed"}

Rectangles(n) == Flatten([k \in 1..n |-> SpXml("rect", <<>>, <<>>)])

RefSlide(i, state) ==
  [target |-> state # "no_target",
   entries |->
     CASE state \in {"ok", "no_target"} -> <<SlidePart(i, SlideXml(Rectangles(i)))>>
       [] state = "unreadable" -> <<SlidePart(i, <<NotUtf8>>)>>
       [] state = "malformed" ->
            <<SlidePart(i, SlideXml(Rectangles(1) \o <<ErrEv>> \o Rectangles(i)))>>
       [] OTHER -> <<>>]

RefsInput(states) ==
  [format |-> "pptx",
   file |-> PptxFile([i \in 1..Len(states) |-> RefSlide(i, states[i])], TRUE),
   about |-> [kind |-> "refs", states |-> states]]

RefsInputs == {RefsInput(states) : states \in SeqsUpTo(RefStates, MaxRefs) \ {<<>>}}

(***************************************************************************)
(* Format-B ellipses with up to MaxColors solid colors in their            *)
(* properties, without a text body or with one that holds a blank text     *)
(* and a solid color in its run properties.                                *)
(***************************************************************************)
MaxColors == 3
Red == Hex(255, 0, 0)
Green == Hex(0, 255, 0)
Navy == Hex(0, 0, 128)
White == Hex(255, 255, 255)

ColorsInput(colors, body) ==
  LET slide == [target |-> TRUE,
                entries |->
                  <<SlidePart(1, SlideXml(SpXml("ellipse", colors,
                                                IF body = "blank"
                                                  THEN TxBody(<<" ">>, <<White>>)
                                                  ELSE <<>>)))>>]
  IN [format |-> "pptx", file |-> PptxFile(<<slide>>, TRUE),
      about |-> [kind |-> "colors", colors |-> colors, body |-> body]]

ColorsInputs ==
  { ColorsInput(colors, body) :
      colors \in SeqsUpTo({Red, Green, Navy}, MaxColors), body \in {"none", "blank"} }

ReaderInit ==
  ReaderInitOver(PagesInputs \cup {NoPageInput} \cup ContainerInputs \cup LayoutInputs
                 \cup PictureInputs \cup RefsInputs \cup ColorsInputs)
ReaderSpec == ReaderInit /\ [][ReaderNext]_vars

(***************************************************************************)
(* Pages and slides of the Format-A reader.                                *)
(***************************************************************************)
\* the element kinds a page is to give: an image whose href names no entry
\* gives none
PageKinds(elements) ==
  Flatten([k \in 1..Len(elements) |->
             CASE elements[k] \in {"Rectangle", "Ellipse"} -> <<"Shape">>
               [] elements[k] = "Text"                     -> <<"Text">>
               [] elements[k] = "Image"                    -> <<"Image">>
               [] OTHER                                    -> <<>>])

OpenedPages == Opened /\ input.about.kind = "pages"

\* C11: a well-formed content part with n >= 1 page elements, each with open
\* and close tags or self-closing, loads as n slides, the i-th holding the
\* elements of the i-th page in order.
C11_PagesBecomeSlides ==
  (OpenedPages /\ Len(input.about.pages) >= 1 /\ input.about.broken = NotBroken) =>
    /\ output.ok
    /\ Len(output.doc.slides) = Len(input.about.pages)
    /\ \A i \in 1..Len(input.about.pages) :
         ElementKinds(output.doc.slides[i]) = PageKinds(input.about.pages[i].elements)

\* C12: a content part without a page element loads as one slide without
\* elements.
C12_NoPageOneEmptySlide ==
  (OpenedPages /\ input.about.pages = <<>>) =>
    /\ output.ok
    /\ Len(output.doc.slides) = 1
    /\ output.doc.slides[1].elements = <<>>

\* the part without pages that has shapes in it was opened
C12_Witness == Opened /\ input = NoPageInput /\ output.ok

\* the elements that lie before the malformed point
KindsBefore(pages, broken) ==
  Flatten([i \in 1..broken.page |->
             IF i < broken.page THEN PageKinds(pages[i].elements)
             ELSE PageKinds(SubSeq(pages[i].elements, 1, broken.after))])

\* C14: a content part that turns malformed loads, and the document holds
\* every element that ended before the malformed point, those of the page
\* that was open included.
C14_ParsedElementsKept ==
  (OpenedPages /\ input.about.broken # NotBroken) =>
    /\ output.ok
    /\ [k \in 1..Len(AllElements(output.doc)) |-> AllElements(output.doc)[k].kind]
         = KindsBefore(input.about.pages, input.about.broken)

(***************************************************************************)
(* Container errors of both readers.                                       *)
(***************************************************************************)
OpenedContainer == Opened /\ input.about.kind = "container"

\* the part load_document cannot do without
RequiredPart(format) == IF format = "odp" THEN "content.xml" ELSE "presentation.xml"

\* C13: load fails when the file is no ZIP container or the required part
\* (content.xml, ppt/presentation.xml) is absent, and succeeds whichever
\* other parts are absent.
C13_FailsOnlyOnContainerError ==
  OpenedContainer =>
    (output.ok <=> (input.about.zip /\ RequiredPart(input.format) \in input.about.parts))

\* a package that has only its presentation part was opened
C13_Witness ==
  /\ OpenedContainer
  /\ input.format = "pptx"
  /\ input.about.zip
  /\ input.about.parts = {"presentation.xml"}
  /\ output.ok

(***************************************************************************)
(* Slide size of the Format-A reader.                                      *)
(***************************************************************************)
OpenedLayout == Opened /\ input.about.kind = "layout"

\* whether the layout part supplies a parseable value for a dimension
Supplied(about, value) == about.part /\ value = "good" /\ about.broken # "before"

\* 2 cm and 1 in, in points
GoodWidthPt == [pt |-> 56, lu |-> 13860000]
GoodHeightPt == [pt |-> 72, lu |-> 0]

\* C15: the slide width is 960 pt unless the layout part supplies a parseable
\* page-width, the slide height is 540 pt unless it supplies a parseable
\* page-height, each decided on its own; the load never fails over the layout
\* part.
C15_SlideSizeDefaults ==
  OpenedLayout =>
    /\ output.ok
    /\ output.doc.slide_size.width =
         (IF Supplied(input.about, input.about.width)
            THEN GoodWidthPt ELSE [pt |-> 960, lu |-> 0])
    /\ output.doc.slide_size.height =
         (IF Supplied(input.about, input.about.height)
            THEN GoodHeightPt ELSE [pt |-> 540, lu |-> 0])

\* a layout part with a parseable page-width and an unparseable page-height
\* was read: the width is taken, the height is the default
C15_Witness ==
  /\ OpenedLayout
  /\ input.about.width = "good"
  /\ input.about.height = "bad"
  /\ input.about.broken = "no"
  /\ output.ok
  /\ output.doc.slide_size = Size_new(GoodWidthPt, WholePoints(DefaultHeight))

(***************************************************************************)
(* Image references that cannot be resolved.                               *)
(***************************************************************************)
OpenedPicture == Opened /\ input.about.kind = "picture"

HasMissingImage(pages) ==
  \E i \in 1..Len(pages) : \E k \in 1..Len(pages[i].elements) :
    pages[i].elements[k] = "MissingImage"

\* the kind of every element of a document, the ShapeType for a Shape
ElementFacts(d) ==
  [k \in 1..Len(AllElements(d)) |->
     IF AllElements(d)[k].kind = "Shape" THEN AllElements(d)[k].shape_type
     ELSE AllElements(d)[k].kind]

\* C16: an image reference that cannot be resolved gives no Image element,
\* does not fail the load and leaves the other elements in the result, in
\* both readers.
C16_UnresolvedImageSkipped ==
  /\ (OpenedPages /\ input.about.broken = NotBroken /\ HasMissingImage(input.about.pages)) =>
       /\ output.ok
       /\ [k \in 1..Len(AllElements(output.doc)) |-> AllElements(output.doc)[k].kind]
            = Flatten([i \in 1..Len(input.about.pages) |->
                         PageKinds(input.about.pages[i].elements)])
  /\ OpenedPicture =>
       /\ output.ok
       /\ Len(output.doc.slides) = 1
       /\ ElementFacts(output.doc) =
            (IF input.about.ref = "resolved"
               THEN <<"Rectangle", "Image", "Text", "Ellipse">>
               ELSE <<"Rectangle", "Text", "Ellipse">>)

\* a slide whose picture names a relationship the slide does not have was
\* opened
C16_Witness ==
  /\ OpenedPicture
  /\ input.about.ref = "no_id"
  /\ output.ok
  /\ Len(AllElements(output.doc)) = 3

(***************************************************************************)
(* Slide references of a Format-B presentation.                            *)
(***************************************************************************)
OpenedRefs == Opened /\ input.about.kind = "refs"

\* C17: a presentation that lists n >= 1 slide references loads as n slides
\* in the order of the list; a reference without a relationship target, or
\* whose part is absent or unreadable, gives a slide without elements at its
\* position, a malformed part gives a slide at its position, and the other
\* slides have their elements.
C17_SlidePerReference ==
  OpenedRefs =>
    /\ output.ok
    /\ Len(output.doc.slides) = Len(input.about.states)
    /\ \A i \in 1..Len(input.about.states) :
         LET state == input.about.states[i]
             elements == output.doc.slides[i].elements
         IN /\ state = "ok" =>
                 ElementKinds(output.doc.slides[i]) = [k \in 1..i |-> "Shape"]
            /\ state \in {"no_target", "absent", "unreadable"} => elements = <<>>

\* three references, the second without a relationship target: three slides,
\* the second without elements, the third with its three shapes
C17_Witness ==
  /\ OpenedRefs
  /\ input.about.states = <<"ok", "no_target", "ok">>
  /\ Len(output.doc.slides) = 3
  /\ output.doc.slides[2].elements = <<>>
  /\ Len(output.doc.slides[3].elements) = 3

(***************************************************************************)
(* Fill and stroke of a Format-B shape.                                    *)
(***************************************************************************)
OpenedColors == Opened /\ input.about.kind = "colors"

\* C18: with c1..cn the solid colors of a shape outside its text body, the
\* fill is c1 and the stroke color c2 when n >= 2 whatever follows; with
\* n = 1 the fill is c1 and there is no stroke; with n = 0 there is neither;
\* the colors inside the text body change nothing.
C18_FirstFillSecondStroke ==
  OpenedColors =>
    /\ output.ok
    /\ ElementFacts(output.doc) = <<"Ellipse">>
    /\ LET shape == AllElements(output.doc)[1]
           colors == input.about.colors
       IN /\ shape.fill.some = (Len(colors) >= 1)
          /\ shape.fill.some => shape.fill.v = FillStyle_new(Color_from_hex(colors[1]).v)
          /\ shape.stroke.some = (Len(colors) >= 2)
          /\ shape.stroke.some => shape.stroke.v.color = Color_from_hex(colors[2]).v

(***************************************************************************)
(* parse_cm on the characters of a dimension string                        *)
(* (format/odp/constants.rs:32-43).  An f64 is kept as the decimal the     *)
(* text denotes: mant * 10^exp with a sign, or an infinity, or NaN.        *)
(***************************************************************************)
IsWhite(c) == c \in {" "}
IsDigit(c) == c \in {"0", "1", "2", "3", "4", "5", "6", "7", "8", "9"}
DigitValue(c) ==
  CASE c = "0" -> 0 [] c = "1" -> 1 [] c = "2" -> 2 [] c = "3" -> 3 [] c = "4" -> 4
    [] c = "5" -> 5 [] c = "6" -> 6 [] c = "7" -> 7 [] c = "8" -> 8 [] c = "9" -> 9

to_ascii_lowercase(c) ==
  CASE c = "A" -> "a" [] c = "E" -> "e" [] c = "F" -> "f" [] c = "I" -> "i"
    [] c = "N" -> "n" [] c = "T" -> "t" [] c = "Y" -> "y" [] OTHER -> c

\* str::trim
trim(s) ==
  LET keep == {i \in 1..Len(s) : ~IsWhite(s[i])}
  IN IF keep = {} THEN <<>>
     ELSE SubSeq(s, CHOOSE i \in keep : \A j \in keep : i <= j,
                    CHOOSE i \in keep : \A j \in keep : j <= i)

\* str::strip_suffix
strip_suffix(s, suffix) ==
  IF Len(s) >= Len(suffix) /\ SubSeq(s, Len(s) - Len(suffix) + 1, Len(s)) = suffix
    THEN Some(SubSeq(s, 1, Len(s) - Len(suffix)))
    ELSE None

RECURSIVE Decimal(_)
Decimal(digits) ==
  IF digits = <<>> THEN 0
  ELSE 10 * Decimal(SubSeq(digits, 1, Len(digits) - 1)) + DigitValue(digits[Len(digits)])

RECURSIVE Normal(_, _)
Normal(mant, exp) ==
  IF mant = 0 THEN [mant |-> 0, exp |-> 0]
  ELSE IF mant % 10 = 0 THEN Normal(mant \div 10, exp + 1)
  ELSE [mant |-> mant, exp |-> exp]

Finite(negative, mant, exp) ==
  [class |-> "finite", negative |-> negative,
   mant |-> Normal(mant, exp).mant, exp |-> Normal(mant, exp).exp]
Infinite(negative) == [class |-> "inf", negative |-> negative, mant |-> 0, exp |-> 0]
NaN == [class |-> "nan", negative |-> FALSE, mant |-> 0, exp |-> 0]

\* the first index from `from` on that holds no digit
DigitsEnd(s, from) ==
  LET stops == {j \in from..Len(s) : ~IsDigit(s[j])}
  IN IF stops = {} THEN Len(s) + 1 ELSE CHOOSE j \in stops : \A k \in stops : j <= k

\* str::parse::<f64>(): [sign] (inf | infinity | nan | digits [. digits]
\* [e [sign] digits]), letters in either case, at least one digit in the
\* mantissa; None is the Err
parse_f64(s) ==
  LET negative == Len(s) > 0 /\ s[1] = "-"
      body == IF Len(s) > 0 /\ s[1] \in {"+", "-"} THEN Tail(s) ELSE s
      lower == [i \in 1..Len(body) |-> to_ascii_lowercase(body[i])]
      n == Len(body)
      int_end == DigitsEnd(body, 1)
      has_point == int_end <= n /\ body[int_end] = "."
      frac_start == IF has_point THEN int_end + 1 ELSE int_end
      frac_end == DigitsEnd(body, frac_start)
      digits == SubSeq(body, 1, int_end - 1) \o SubSeq(body, frac_start, frac_end - 1)
      has_exp == frac_end <= n /\ lower[frac_end] = "e"
      exp_signed == has_exp /\ frac_end + 1 <= n /\ body[frac_end + 1] \in {"+", "-"}
      exp_start == IF ~has_exp THEN frac_end
                   ELSE IF exp_signed THEN frac_end + 2 ELSE frac_end + 1
      exp_end == DigitsEnd(body, exp_start)
      exp_value == Decimal(SubSeq(body, exp_start, exp_end - 1))
      exponent == IF exp_signed /\ body[frac_end + 1] = "-" THEN -exp_value ELSE exp_value
  IN IF lower = <<"n", "a", "n">> THEN Some(NaN)
     ELSE IF lower \in {<<"i", "n", "f">>, <<"i", "n", "f", "i", "n", "i", "t", "y">>}
       THEN Some(Infinite(negative))
     ELSE IF digits = <<>> THEN None
     ELSE IF has_exp /\ exp_end = exp_start THEN None
     ELSE IF exp_end # n + 1 THEN None
     ELSE Some(Finite(negative, Decimal(digits), exponent - (frac_end - frac_start)))

\* the factors of the units: 28.3465, 72.0 and none
PtPerCm == Finite(FALSE, 283465, -4)
PtPerIn == Finite(FALSE, 72, 0)
PtPerPt == Finite(FALSE, 1, 0)

\* Option::map with a multiplication: the product is kept as its factors
Times(value, factor) ==
  IF value.some THEN Some([number |-> value.v, times |-> factor]) ELSE None

\* cm_to_pt
cm_to_pt(value) == Times(value, PtPerCm)

\* parse_cm on a string of characters
parse_cm_str(s) ==
  LET t == trim(s)
      cm == strip_suffix(t, <<"c", "m">>)
      inch == strip_suffix(t, <<"i", "n">>)
      pt == strip_suffix(t, <<"p", "t">>)
  IN IF cm.some THEN cm_to_pt(parse_f64(cm.v))
     ELSE IF inch.some THEN Times(parse_f64(inch.v), PtPerIn)
     ELSE IF pt.some THEN Times(parse_f64(pt.v), PtPerPt)
     ELSE cm_to_pt(parse_f64(t))

(***************************************************************************)
(* Dimension strings of up to MaxLen characters, parsed.                   *)
(***************************************************************************)
MaxLen == 4
Chars == {" ", "5", ".", "-", "e", "c", "m", "i", "n", "p", "t", "a", "f"}

Parsed == pc = "parsed"

\* parse_bounds and the other readers of an attribute value call parse_cm
ParseCm ==
  /\ pc = "text"
  /\ output' = parse_cm_str(input.text)
  /\ pc' = "parsed"
  /\ lastOp' = Did("ParseCm")
  /\ UNCHANGED <<doc, nextId, zip, imgQueue, loaded, input>>

ParseNext == ParseCm

ParseInit ==
  /\ doc = Document_new(1)
  /\ nextId = 2
  /\ pc = "text"
  /\ zip = <<>>
  /\ imgQueue = <<>>
  /\ loaded = None
  /\ lastOp = [op |-> "init", slides |-> 0]
  /\ input \in {[format |-> "dimension", text |-> s] : s \in SeqsUpTo(Chars, MaxLen)}
  /\ output = None

ParseSpec == ParseInit /\ [][ParseNext]_vars

\* a number in decimal notation: an optional sign, digits with at most one
\* point among them and at least one digit, an optional exponent
AllDigits(s) == \A i \in 1..Len(s) : IsDigit(s[i])
IsMantissa(s) ==
  /\ \E i \in 1..Len(s) : IsDigit(s[i])
  /\ \E k \in 0..Len(s) :
       /\ AllDigits(SubSeq(s, 1, k))
       /\ k = Len(s) \/ (s[k + 1] = "." /\ AllDigits(SubSeq(s, k + 2, Len(s))))
IsExponent(s) ==
  /\ s[1] \in {"e", "E"}
  /\ LET r == Tail(s)
         d == IF r # <<>> /\ r[1] \in {"+", "-"} THEN Tail(r) ELSE r
     IN d # <<>> /\ AllDigits(d)
IsNumber(s) ==
  LET u == IF s # <<>> /\ s[1] \in {"+", "-"} THEN Tail(s) ELSE s
  IN \E k \in 1..Len(u) :
       /\ IsMantissa(SubSeq(u, 1, k))
       /\ k = Len(u) \/ IsExponent(SubSeq(u, k + 1, Len(u)))

\* the unit suffix a trimmed string ends with ("" for none)
SuffixOf(t) ==
  LET last == IF Len(t) >= 2 THEN SubSeq(t, Len(t) - 1, Len(t)) ELSE <<>>
  IN CASE last = <<"c", "m">> -> "cm"
       [] last = <<"i", "n">> -> "in"
       [] last = <<"p", "t">> -> "pt"
       [] OTHER               -> ""

\* C19: parse_cm returns a value exactly when the trimmed string without its
\* one unit suffix (cm, in, pt) is a number; the value is the number times
\* 28.3465 for cm and for no suffix, times 72 for in, and the number for pt.
C19_ParseCmValue ==
  Parsed =>
    LET t == trim(input.text)
        unit == SuffixOf(t)
        rest == IF unit = "" THEN t ELSE SubSeq(t, 1, Len(t) - 2)
        factor == CASE unit \in {"cm", ""} -> Finite(FALSE, 283465, -4)
                    [] unit = "in"        -> Finite(FALSE, 72, 0)
                    [] unit = "pt"        -> Finite(FALSE, 1, 0)
    IN /\ output.some <=> IsNumber(rest)
       /\ output.some => /\ output.v.number = parse_f64(rest).v
                         /\ output.v.times = factor

(***************************************************************************)
(* Dimension strings parsed and formatted back.  The numbers are multiples *)
(* of a step per unit, in 1/10000, up to the largest length of the model   *)
(* (about 3.7 cm, 1.4 in, 100 pt).                                         *)
(***************************************************************************)
MaxSteps == 40
CmStep == 907
InStep == 353
PtStep == 25013

Units == {"cm", "in", "pt", ""}

StepOf(unit) ==
  CASE unit = "in" -> InStep
    [] unit = "pt" -> PtStep
    [] OTHER       -> CmStep

DimInputs ==
  { [format |-> "dimension", dim |-> Dim(k * StepOf(unit), unit)] :
      k \in 0..MaxSteps, unit \in Units }

Formatted == pc = "formatted"

\* reader: parse_cm on an attribute value
ParseDim ==
  /\ pc = "text"
  /\ output' = parse_cm(input.dim)
  /\ pc' = "parsed"
  /\ lastOp' = Did("ParseDim")
  /\ UNCHANGED <<doc, nextId, zip, imgQueue, loaded, input>>

\* writer: format_cm on the length
FormatDim ==
  /\ pc = "parsed"
  /\ output.some
  /\ output' = Some(format_cm(output.v))
  /\ pc' = "formatted"
  /\ lastOp' = Did("FormatDim")
  /\ UNCHANGED <<doc, nextId, zip, imgQueue, loaded, input>>

DimNext == ParseDim \/ FormatDim

DimInit ==
  /\ doc = Document_new(1)
  /\ nextId = 2
  /\ pc = "text"
  /\ zip = <<>>
  /\ imgQueue = <<>>
  /\ loaded = None
  /\ lastOp = [op |-> "init", slides |-> 0]
  /\ input \in DimInputs
  /\ output = None

DimSpec == DimInit /\ [][DimNext]_vars

\* 0.0001 of a unit in length units: 28.3465 pt per cm, 72 pt per in
GridOf(unit) ==
  CASE unit = "in" -> (72 * PtUnit) \div 10000
    [] unit = "pt" -> PtUnit \div 10000
    [] OTHER       -> (283465 * (PtUnit \div 10000)) \div 10000

\* C20: format_cm(parse_cm(s)) for s = n cm, n in, n pt and bare n is the
\* rendering with 4 decimals of n cm, n * 72 / 28.3465 cm, n / 28.3465 cm and
\* n cm, within 0.0001 cm; the bare form and the cm form give the same.
C20_ParseThenFormat ==
  Formatted =>
    /\ output.v.ok
    /\ output.v.unit = "cm"
    /\ Abs(output.v.num * GridOf("cm") - input.dim.num * GridOf(input.dim.unit))
         <= GridOf("cm")
    /\ input.dim.unit \in {"cm", ""} => output.v = Dim(input.dim.num, "cm")

\* 1.412 in was parsed and formatted: 3.5865 cm
C20_Witness ==
  /\ Formatted
  /\ input.dim = Dim(40 * InStep, "in")
  /\ output.v = Dim(35865, "cm")

(***************************************************************************)
(* save_document with its input/output calls able to fail (writer.rs       *)
(* 14-55).  Every call is followed by `?`: a failed call returns its error *)
(* from save_document at once.  output is the run so far: the calls        *)
(* attempted in order, the calls that failed, whether the archive trailer  *)
(* was written, and what save_document returned.                           *)
(***************************************************************************)
Create == [call |-> "create", entry |-> 0]
StartFile(i) == [call |-> "start_file", entry |-> i]
WriteAll(i) == [call |-> "write_all", entry |-> i]
Finish == [call |-> "finish", entry |-> 0]

\* the calls of save_document on d, in program order
IoCalls(d) ==
  LET n == Len(save_document(d))
  IN <<Create>>
     \o [k \in 1..(2 * n) |-> IF k % 2 = 1 THEN StartFile((k + 1) \div 2) ELSE WriteAll(k \div 2)]
     \o <<Finish>>

Ok == [ok |-> TRUE]
Err(call) == [ok |-> FALSE, error |-> call]

Running(run) == ~run.result.some

\* a variant of `?` that drops the error and goes on
Try_ignore(run, k, io_ok) ==
  [run EXCEPT !.attempted = Append(@, k),
              !.failed = IF io_ok THEN @ ELSE @ \cup {k}]

\* expr? : the call was made; its error, if any, is what save_document returns
Try(run, k, io_ok) ==
  [run EXCEPT !.attempted = Append(@, k),
              !.failed = IF io_ok THEN @ ELSE @ \cup {k},
              !.result = IF io_ok THEN @ ELSE Some(Err(k))]

\* what a successful call leaves in the container
Written(entries, call, archive) ==
  CASE call.call = "start_file" ->
         Append(archive, [entries[call.entry] EXCEPT !.data = <<>>])
    [] call.call = "write_all" ->
         [archive EXCEPT ![Len(archive)].data = entries[call.entry].data]
    [] OTHER -> archive

\* Ok(()) after zip.finish()
Return(run, calls) ==
  IF Running(run) /\ Len(run.attempted) = Len(calls)
    THEN [run EXCEPT !.finished = run.attempted[Len(run.attempted)] \notin run.failed, !.result = Some(Ok)]
    ELSE run

NextCall == Len(output.attempted) + 1

\* the next call of save_document succeeds
IoSucceeds ==
  /\ pc = "saving"
  /\ NextCall <= Len(IoCalls(doc))
  /\ output' = Return(Try(output, NextCall, TRUE), IoCalls(doc))
  /\ zip' = Written(save_document(doc), IoCalls(doc)[NextCall], zip)
  /\ pc' = IF Running(output') THEN "saving" ELSE "returned"
  /\ lastOp' = Did("IoSucceeds")
  /\ UNCHANGED <<doc, nextId, imgQueue, loaded, input>>

\* the next call of save_document fails
IoFails ==
  /\ pc = "saving"
  /\ NextCall <= Len(IoCalls(doc))
  /\ output' = Return(Try(output, NextCall, FALSE), IoCalls(doc))
  /\ pc' = IF Running(output') THEN "saving" ELSE "returned"
  /\ lastOp' = Did("IoFails")
  /\ UNCHANGED <<doc, nextId, zip, imgQueue, loaded, input>>

IoNext == IoSucceeds \/ IoFails

IoInit ==
  /\ doc \in DocumentsOver(SampleImages \cup {EmptyText})
  /\ nextId = IdCount(doc) + 1
  /\ pc = "saving"
  /\ zip = <<>>
  /\ imgQueue = <<>>
  /\ loaded = None
  /\ lastOp = [op |-> "init", slides |-> 0]
  /\ input = <<>>
  /\ output = [attempted |-> <<>>, failed |-> {}, finished |-> FALSE, result |-> None]

IoSpec == IoInit /\ [][IoNext]_vars

Returned == pc = "returned"

\* the entries of the container before call k: started and written up to there
Before(entries, calls, k) ==
  [i \in 1..(k \div 2) |->
     IF 2 * i + 1 <= k THEN entries[i] ELSE [entries[i] EXCEPT !.data = <<>>]]

\* C21: save_document makes its calls in program order, each once; the first
\* failed call is the last call made and its error is the result, the
\* container holding what the calls before it wrote; the result is success
\* only after every call succeeded, all parts and the trailer written.
C21_FirstErrorReturned ==
  /\ output.attempted = [k \in 1..Len(output.attempted) |-> k]
  /\ ~Returned => output.failed = {}
  /\ Returned =>
       LET last == Len(output.attempted)
       IN /\ output.failed \subseteq {last}
          /\ output.result.v.ok <=> output.failed = {}
          /\ ~output.result.v.ok =>
               /\ output.result.v = Err(last)
               /\ zip = Before(save_document(doc), IoCalls(doc), last - 1)
               /\ ~output.finished
          /\ output.result.v.ok =>
               /\ last = Len(IoCalls(doc))
               /\ zip = save_document(doc)
               /\ output.finished

\* writing the second image's bytes failed: the first image is in the
\* container, the second entry is started and empty
C21_Witness ==
  /\ Returned
  /\ Len(save_document(doc)) = 7
  /\ output.result = Some(Err(15))
  /\ Len(zip) = 7
  /\ zip[6] = save_document(doc)[6]
  /\ save_document(doc)[7].data # <<>>
  /\ zip[7].data = <<>>

(***************************************************************************)
(* Two documents with the same content under different ids, both written   *)
(* (writer.rs build_manifest, build_meta, build_styles, build_content).    *)
(* input.other is the second document; output holds the two containers.    *)
(***************************************************************************)
\* d with every slide id and element id mapped by renumber
WithIds(d, renumber(_)) ==
  [slides |->
     [i \in 1..Len(d.slides) |->
        [d.slides[i] EXCEPT
           !.id = renumber(@),
           !.elements = [k \in 1..Len(d.slides[i].elements) |->
                           [d.slides[i].elements[k] EXCEPT !.id = renumber(@)]]]]]

\* the ids of d as a later session hands them out: shifted, or in reverse
Shifted(d, by) == WithIds(d, LAMBDA id : id + by)
Reversed(d) == WithIds(d, LAMBDA id : IdCount(d) + 1 - id)
Renumberings(d) == {Shifted(d, 1), Shifted(d, IdCount(d)), Reversed(d)}

\* the parts and image blobs save_document writes for d
Parts(d) ==
  [manifest |-> build_manifest(d), meta |-> build_meta(d), styles |-> build_styles(d),
   content |-> build_content(d).xml, images |-> build_content(d).images]

\* both documents are written
SaveBoth ==
  /\ pc = "pair"
  /\ output' = Some([first |-> Parts(doc), second |-> Parts(input.other)])
  /\ pc' = "written"
  /\ lastOp' = Did("SaveBoth")
  /\ UNCHANGED <<doc, nextId, zip, imgQueue, loaded, input>>

PairNext == SaveBoth

PairInit ==
  /\ doc \in DocumentsOver(SampleElements)
  /\ nextId = 2 * IdCount(doc) + 1
  /\ pc = "pair"
  /\ zip = <<>>
  /\ imgQueue = <<>>
  /\ loaded = None
  /\ lastOp = [op |-> "init", slides |-> 0]
  /\ input \in {[other |-> d] : d \in Renumberings(doc)}
  /\ output = None

PairSpec == PairInit /\ [][PairNext]_vars

BothWritten == pc = "written"

\* C22: two documents that differ only in their slide ids and element ids
\* are written to identical manifest, metadata, page-layout and content
\* parts and identical image blobs under identical paths.
C22_OutputIgnoresIds ==
  BothWritten /\ WithIds(doc, LAMBDA id : 0) = WithIds(input.other, LAMBDA id : 0)
    => output.v.first = output.v.second

\* a shape and an image on one slide, written under two different numberings
C22_Witness ==
  /\ BothWritten
  /\ Len(doc.slides) = 1
  /\ Len(doc.slides[1].elements) = 2
  /\ doc.slides[1].elements[1].kind = "Shape"
  /\ doc.slides[1].elements[2].kind = "Image"
  /\ doc.slides[1].elements[1].id # input.other.slides[1].elements[1].id
  /\ doc.slides[1].elements[2].id # input.other.slides[1].elements[2].id
  /\ doc.slides[1].id # input.other.slides[1].id
  /\ output.v.first.images # <<>>
  /\ output.v.first = output.v.second

(***************************************************************************)
(* The window's file actions (window.rs setup_file_actions): open, save    *)
(* and save-as.  input is the disk, a file or Missing under each path;     *)
(* output holds the window's file_path and the log of the actions that     *)
(* ran, each with the path it was given and whether it succeeded.          *)
(***************************************************************************)
MaxActions == 3

Path(stem, ext) == [stem |-> stem, ext |-> ext]
Talk == Path("talk", "odp")
NoFile == Path("none", "odp")
Deck == Path("deck", "pptx")
Paths == {Talk, NoFile, Deck}

Missing == [valid |-> FALSE, entries |-> <<>>, missing |-> TRUE]

SampleDisk ==
  [p \in Paths |->
     CASE p = Talk -> OdpFile(ContentXml(<<OpenPage(<<"Rectangle", "Text">>)>>, NotBroken))
       [] p = Deck -> PptxFile(<<RefSlide(1, "ok")>>, TRUE)
       [] OTHER    -> Missing]

file_path == output.file_path
log == output.log

Event(action, path, ok) == [action |-> action, path |-> path, ok |-> ok]

\* path.extension().and_then(|e| e.to_str()) == Some("pptx")
is_pptx(path) == path.ext = "pptx"

\* the reader the open action picks by the extension
load_result(path) ==
  IF is_pptx(path) THEN pptx_load_file(input[path], nextId)
  ELSE odp_load_file(input[path], nextId)

\* a variant of the open action that remembers every opened path
Remembered_any(path) == Some(path)

\* the file_path a successful open leaves: none for an imported file
Remembered(path) == IF is_pptx(path) THEN None ELSE Some(path)

\* what save_document leaves under the path: the container, nothing new
\* when the file could not be created, a torn file when a later call failed
IoOutcomes == {"ok", "not_created", "torn"}
OnDisk(path, outcome) ==
  CASE outcome = "ok"   -> [input EXCEPT ![path] = File(save_document(doc))]
    [] outcome = "torn" -> [input EXCEPT ![path] = NotZip]
    [] OTHER            -> input

\* the open dialog returned path
Open(path) ==
  /\ pc = "window"
  /\ Len(log) < MaxActions
  /\ doc' = IF load_result(path).ok THEN load_result(path).doc ELSE doc
  /\ nextId' = load_result(path).nextId
  /\ output' = [file_path |-> IF load_result(path).ok THEN Remembered(path) ELSE file_path,
                log |-> Append(log, Event("open", Some(path), load_result(path).ok))]
  /\ lastOp' = Did("Open")
  /\ UNCHANGED <<pc, zip, imgQueue, loaded, input>>

\* save with a remembered path: the document is written to it
SaveToPath(outcome) ==
  /\ pc = "window"
  /\ Len(log) < MaxActions
  /\ file_path.some
  /\ input' = OnDisk(file_path.v, outcome)
  /\ output' = [output EXCEPT !.log = Append(@, Event("save", file_path, outcome = "ok"))]
  /\ lastOp' = Did("Save")
  /\ UNCHANGED <<doc, nextId, pc, zip, imgQueue, loaded>>

\* save without a remembered path: the save-as action is activated
SaveAsks ==
  /\ pc = "window"
  /\ Len(log) < MaxActions
  /\ ~file_path.some
  /\ pc' = "save-as"
  /\ output' = [output EXCEPT !.log = Append(@, Event("save", None, FALSE))]
  /\ lastOp' = Did("Save")
  /\ UNCHANGED <<doc, nextId, zip, imgQueue, loaded, input>>

\* save-as: the dialog is shown
SaveAs ==
  /\ pc = "window"
  /\ Len(log) < MaxActions
  /\ pc' = "save-as"
  /\ lastOp' = Did("SaveAs")
  /\ UNCHANGED <<doc, nextId, zip, imgQueue, loaded, input, output>>

\* the save dialog was dismissed
SaveAsCancelled ==
  /\ pc = "save-as"
  /\ pc' = "window"
  /\ output' = [output EXCEPT !.log = Append(@, Event("save-as", None, FALSE))]
  /\ lastOp' = Did("SaveAsCancelled")
  /\ UNCHANGED <<doc, nextId, zip, imgQueue, loaded, input>>

\* the save dialog returned path
SaveAsChosen(path, outcome) ==
  /\ pc = "save-as"
  /\ pc' = "window"
  /\ input' = OnDisk(path, outcome)
  /\ output' = [file_path |-> IF outcome = "ok" THEN Some(path) ELSE file_path,
                log |-> Append(log, Event("save-as", Some(path), outcome = "ok"))]
  /\ lastOp' = Did("SaveAsChosen")
  /\ UNCHANGED <<doc, nextId, zip, imgQueue, loaded>>

WindowNext ==
  \/ \E path \in Paths : Open(path)
  \/ \E outcome \in IoOutcomes : SaveToPath(outcome)
  \/ SaveAsks
  \/ SaveAs
  \/ SaveAsCancelled
  \/ \E path \in Paths, outcome \in IoOutcomes : SaveAsChosen(path, outcome)

WindowInit ==
  /\ doc = Document_new(1)
  /\ nextId = 2
  /\ pc = "window"
  /\ zip = <<>>
  /\ imgQueue = <<>>
  /\ loaded = None
  /\ lastOp = [op |-> "init", slides |-> 0]
  /\ input = SampleDisk
  /\ output = [file_path |-> None, log |-> <<>>]

WindowSpec == WindowInit /\ [][WindowNext]_vars

\* the successful opens and save-as of the log, and the last of them
Setting(events) ==
  SelectSeq(events, LAMBDA e : e.ok /\ e.action \in {"open", "save-as"})
LastSetting(events) == Setting(events)[Len(Setting(events))]

\* the path the log accounts for: of the last successful open of an .odp
\* file or save-as, none after a successful open of a .pptx file
Accounted(events) ==
  IF Setting(events) = <<>> THEN None
  ELSE IF LastSetting(events).action = "open" /\ is_pptx(LastSetting(events).path.v) THEN None
  ELSE LastSetting(events).path

Logged(action) == Len(log') = Len(log) + 1 /\ log'[Len(log')].action = action

\* C23: file_path is empty or the path of the last successful open of an
\* .odp file or save-as, and empty after a successful open of a .pptx file;
\* a save that follows such an open shows the save dialog and writes
\* nothing; a failed open or save-as leaves file_path and the document.
C23_RememberedPath ==
  /\ [](file_path = Accounted(log))
  /\ [][ /\ (Logged("save") /\ Setting(log) # <<>> /\ LastSetting(log).action = "open"
               /\ is_pptx(LastSetting(log).path.v))
             => pc' = "save-as" /\ input' = input
         /\ ((Logged("open") \/ Logged("save-as")) /\ ~log'[Len(log')].ok)
             => file_path' = file_path /\ doc' = doc ]_vars

\* talk.odp was opened, then deck.pptx, then save was activated: the save
\* dialog is open and no path is remembered
C23_Witness ==
  /\ log = <<Event("open", Some(Talk), TRUE), Event("open", Some(Deck), TRUE),
             Event("save", None, FALSE)>>
  /\ pc = "save-as"
  /\ ~file_path.some
  /\ input = SampleDisk

(***************************************************************************)
(* Format-A pages of drawing primitives: rect, ellipse and line, each      *)
(* self-closing or with open and close tags around a paragraph, and text   *)
(* frames between them.                                                    *)
(***************************************************************************)
Primitive(tag, open) == [tag |-> tag, open |-> open]
Primitives == {Primitive(tag, open) : tag \in {"rect", "ellipse", "line"}, open \in BOOLEAN}

\* a frame with a text box, as ElementXml("Text") writes it
TextItem == Primitive("frame", TRUE)

PrimitiveAttrs(tag) ==
  IF tag = "line"
    THEN <<Attr("x1", format_cm(0)), Attr("y1", format_cm(0)),
           Attr("x2", format_cm(100 * CmGrid)), Attr("y2", format_cm(200 * CmGrid))>>
    ELSE BoundsAttrs(GridBounds)

\* <draw:rect .../> or <draw:rect ...><text:p/></draw:rect>
PrimitiveXml(item) ==
  IF item = TextItem THEN ElementXml("Text")
  ELSE IF item.open
    THEN <<StartTag(item.tag, PrimitiveAttrs(item.tag)), EmptyTag("p", <<>>), EndTag(item.tag)>>
    ELSE <<EmptyTag(item.tag, PrimitiveAttrs(item.tag))>>

\* a content part of one page that holds xml
OnePage(xml) ==
  <<DeclEv, StartTag("document-content", <<>>), StartTag("body", <<>>),
    StartTag("presentation", <<>>), StartTag("page", <<Attr("name", <<"Slide">>)>>)>>
  \o xml
  \o <<EndTag("page"), EndTag("presentation"), EndTag("body"), EndTag("document-content")>>

PrimitivesInput(items) ==
  [format |-> "odp",
   file |-> OdpFile(OnePage(Flatten([k \in 1..Len(items) |-> PrimitiveXml(items[k])]))),
   about |-> [kind |-> "primitives", items |-> items]]

PrimitivesInputs ==
  {PrimitivesInput(items) : items \in SeqsUpTo(Primitives \cup {TextItem}, MaxElements) \ {<<>>}}

OpenedPrimitives == Opened /\ input.about.kind = "primitives"

\* the element a page item is to give
ItemFact(item) ==
  CASE item = TextItem     -> "Text"
    [] item.tag = "rect"    -> "Rectangle"
    [] item.tag = "ellipse" -> "Ellipse"
    [] OTHER                -> "Line"

\* C24: every rect, ellipse or line in a page, self-closing or with open and
\* close tags around child content, gives exactly one Shape of the matching
\* kind at its document position among the slide's elements.
C24_PrimitiveGivesShape ==
  OpenedPrimitives =>
    /\ output.ok
    /\ ElementFacts(output.doc) = [k \in 1..Len(input.about.items) |-> ItemFact(input.about.items[k])]

\* the same for pages whose primitives are all self-closing
SelfClosingGiveShapes ==
  (OpenedPrimitives /\ \A k \in 1..Len(input.about.items) :
                          input.about.items[k] = TextItem \/ ~input.about.items[k].open)
    => /\ output.ok
       /\ ElementFacts(output.doc)
            = [k \in 1..Len(input.about.items) |-> ItemFact(input.about.items[k])]

\* a primitive with open and close tags gives no element
OpenPrimitiveGivesNothing ==
  (OpenedPrimitives /\ \A k \in 1..Len(input.about.items) :
                          input.about.items[k] # TextItem /\ input.about.items[k].open)
    => output.ok /\ AllElements(output.doc) = <<>>

(***************************************************************************)
(* Format-A shapes and the style their style-name refers to: no            *)
(* style-name, a name without a record, or a record whose fill and stroke  *)
(* are solid, none or not given, with or without colors.                   *)
(***************************************************************************)
\* <style:style style:name=name style:family="graphic"> props </style:style>
StyleRecord(name, props) ==
  <<StartTag("style", <<Attr("name", name), Attr("family", "graphic")>>)>>
  \o props \o <<EndTag("style")>>

AutomaticStyles(records) ==
  <<StartTag("automatic-styles", <<>>)>> \o records \o <<EndTag("automatic-styles")>>

\* a content part of one page, the automatic-styles section before the body
\* or after it
StyledPage(auto_styles, xml, styles_last) ==
  <<DeclEv, StartTag("document-content", <<>>)>>
  \o (IF styles_last THEN <<>> ELSE auto_styles)
  \o <<StartTag("body", <<>>), StartTag("presentation", <<>>),
       StartTag("page", <<Attr("name", <<"Slide">>)>>)>>
  \o xml
  \o <<EndTag("page"), EndTag("presentation"), EndTag("body")>>
  \o (IF styles_last THEN auto_styles ELSE <<>>)
  \o <<EndTag("document-content")>>

Paints == {"solid", "none", "absent"}

\* the graphic properties of a record: draw:fill, draw:stroke and, when
\* colored, the two colors and the stroke width
GraphicProps(fill, stroke, colored) ==
  <<EmptyTag("graphic-properties",
      (IF fill = "absent" THEN <<>> ELSE <<Attr("fill", fill)>>)
      \o (IF stroke = "absent" THEN <<>> ELSE <<Attr("stroke", stroke)>>)
      \o (IF colored THEN <<Attr("fill-color", Red), Attr("stroke-color", Navy),
                            Attr("stroke-width", format_cm(100 * CmGrid))>>
          ELSE <<>>))>>

RecordName == <<"gr", 1>>
UnknownName == <<"gr", 7>>

\* the style-name attribute of a shape that refers to ref
StyleRef(ref) ==
  CASE ref = "record"  -> <<Attr("style-name", RecordName)>>
    [] ref = "unknown" -> <<Attr("style-name", UnknownName)>>
    [] OTHER           -> <<>>

StyledInput(tag, ref, fill, stroke, colored) ==
  [format |-> "odp",
   file |-> OdpFile(StyledPage(
              AutomaticStyles(StyleRecord(RecordName, GraphicProps(fill, stroke, colored))),
              <<EmptyTag(tag, StyleRef(ref) \o PrimitiveAttrs(tag))>>, FALSE)),
   about |-> [kind |-> "styled", tag |-> tag, ref |-> ref, fill |-> fill, stroke |-> stroke,
              colored |-> colored]]

StyledInputs ==
  {StyledInput(tag, "record", fill, stroke, colored) :
     tag \in {"rect", "ellipse", "line"}, fill \in Paints, stroke \in Paints,
     colored \in BOOLEAN}
  \cup {StyledInput(tag, ref, "solid", "solid", TRUE) :
          tag \in {"rect", "ellipse", "line"}, ref \in {"absent", "unknown"}}

OpenedStyled == Opened /\ input.about.kind = "styled"

\* C25: a shape whose style name is missing or names no record has no fill
\* and no stroke; a shape whose record has fill (stroke) not set to solid has
\* no fill (no stroke).
C25_UnstyledHasNoPaint ==
  OpenedStyled =>
    /\ output.ok
    /\ Len(AllElements(output.doc)) = 1
    /\ LET shape == AllElements(output.doc)[1]
       IN /\ input.about.ref # "record" => ~shape.fill.some /\ ~shape.stroke.some
          /\ (input.about.ref = "record" /\ input.about.fill # "solid") => ~shape.fill.some
          /\ (input.about.ref = "record" /\ input.about.stroke # "solid") => ~shape.stroke.some

\* a shape with a record: fill and stroke are there when solid (the fill
\* when a fill color is given too), and not there otherwise
RecordDecidesPaint ==
  (OpenedStyled /\ input.about.ref = "record") =>
    LET shape == AllElements(output.doc)[1]
    IN /\ shape.fill.some <=> (input.about.fill = "solid" /\ input.about.colored)
       /\ shape.stroke.some <=> input.about.stroke = "solid"

\* a shape without a record keeps what ShapeElement::new gave it
NoRecordKeepsDefaults ==
  (OpenedStyled /\ input.about.ref # "record") =>
    LET shape == AllElements(output.doc)[1]
    IN /\ shape.stroke = Some(StrokeStyle_default)
       /\ shape.fill = ShapeElement_new(0, GridBounds, shape.shape_type).fill

(***************************************************************************)
(* Format-A automatic-styles sections of up to MaxRecords style records,   *)
(* two of which may share a name and one of which may have no style:name,  *)
(* and a rectangle that refers to the first name.                          *)
(***************************************************************************)
MaxRecords == 2

OtherName == <<"gr", 2>>
NoName == <<>>

Record(name, fill, stroke) == [name |-> name, fill |-> fill, stroke |-> stroke]
Records ==
  {Record(name, fill, stroke) :
     name \in {RecordName, OtherName, NoName}, fill \in {"solid", "absent"},
     stroke \in {"solid", "absent"}}

RecordXml(r) ==
  <<StartTag("style", (IF r.name = NoName THEN <<>> ELSE <<Attr("name", r.name)>>)
                      \o <<Attr("family", "graphic")>>)>>
  \o GraphicProps(r.fill, r.stroke, FALSE) \o <<EndTag("style")>>

RecordsXml(records) ==
  StyledPage(AutomaticStyles(Flatten([k \in 1..Len(records) |-> RecordXml(records[k])])),
             <<EmptyTag("rect", StyleRef("record") \o PrimitiveAttrs("rect"))>>, FALSE)

RecordsInput(records) ==
  [format |-> "odp", file |-> OdpFile(RecordsXml(records)),
   about |-> [kind |-> "records", records |-> records]]

RecordsInputs == {RecordsInput(records) : records \in SeqsUpTo(Records, MaxRecords) \ {<<>>}}

OpenedRecords == Opened /\ input.about.kind = "records"

\* the style table the style pass leaves for the opened part
StyleTable == StylePass(RecordsXml(input.about.records))

\* the names the records declare and the last record of a name
DeclaredNames(records) == {records[k].name : k \in 1..Len(records)} \ {NoName}
LastNamed(records, name) ==
  records[CHOOSE k \in 1..Len(records) :
            /\ records[k].name = name
            /\ \A j \in (k + 1)..Len(records) : records[j].name # name]

\* the properties a record declares
Declares(r) ==
  [StyleInfo_default EXCEPT !.has_fill = (r.fill = "solid"),
                            !.has_stroke = (r.stroke = "solid")]

LastRecordWins(records) ==
  /\ {StyleTable[k].name : k \in 1..Len(StyleTable)} = DeclaredNames(records)
  /\ \A name \in DeclaredNames(records) :
       MapGet(StyleTable, name) = Declares(LastNamed(records, name))

\* C26: after the style pass the style table maps each style name declared
\* in automatic-styles to the properties of the last record declared with
\* that name; nothing of an earlier record with the name is left in it.
C26_LastRecordOfName ==
  OpenedRecords => output.ok /\ LastRecordWins(input.about.records)

\* the same for sections whose records all have a name
NamedRecordsLastWins ==
  (OpenedRecords /\ \A k \in 1..Len(input.about.records) : input.about.records[k].name # NoName)
    => /\ LastRecordWins(input.about.records)
       /\ RecordName \in DeclaredNames(input.about.records) =>
            LET shape == AllElements(output.doc)[1]
                last == LastNamed(input.about.records, RecordName)
            IN /\ ~shape.fill.some
               /\ shape.stroke.some <=> last.stroke = "solid"

\* a record without a name replaces the entry of the record before it
NamelessTakesPreviousName ==
  (OpenedRecords /\ Len(input.about.records) = 2
     /\ input.about.records[1].name # NoName /\ input.about.records[2].name = NoName)
    => StyleTable = <<[name |-> input.about.records[1].name,
                       info |-> Declares(input.about.records[2])]>>

(***************************************************************************)
(* Format-A paragraphs of up to MaxRuns pieces: spans without a style      *)
(* name, with a name that has no record or with the name of a record, and  *)
(* text outside a span, blank or not.                                      *)
(***************************************************************************)
MaxRuns == 3

SpanPiece(style) == [piece |-> "span", style |-> style]
BarePiece == [piece |-> "bare", style |-> "absent"]
BlankPiece == [piece |-> "blank", style |-> "absent"]
Pieces == {SpanPiece(style) : style \in {"absent", "unknown", "record"}} \cup {BarePiece, BlankPiece}

TextStyleName == <<"T", 1>>
SpanText == <<"a", "b">>
BareText == <<"x", " ", "y">>
BlankText == <<" ", "\n">>

\* the record of TextStyleName: bold, 48 pt
TextRecord ==
  <<StartTag("style", <<Attr("name", TextStyleName), Attr("family", "text")>>),
    EmptyTag("text-properties", <<Attr("font-size", Dim(48, "pt")),
                                  Attr("font-weight", "bold")>>),
    EndTag("style")>>
RecordFont == [FontStyle_default EXCEPT !.size = 48, !.bold = TRUE]

PieceXml(p) ==
  CASE p.piece = "bare"  -> <<TextEv(BareText)>>
    [] p.piece = "blank" -> <<TextEv(BlankText)>>
    [] OTHER ->
         <<StartTag("span", CASE p.style = "record"  -> <<Attr("style-name", TextStyleName)>>
                              [] p.style = "unknown" -> <<Attr("style-name", UnknownName)>>
                              [] OTHER               -> <<>>),
           TextEv(SpanText), EndTag("span")>>

PiecesInput(pieces) ==
  [format |-> "odp",
   file |-> OdpFile(StyledPage(
              AutomaticStyles(TextRecord),
              <<StartTag("frame", BoundsAttrs(GridBounds)), StartTag("text-box", <<>>),
                StartTag("p", <<>>)>>
              \o Flatten([k \in 1..Len(pieces) |-> PieceXml(pieces[k])])
              \o <<EndTag("p"), EndTag("text-box"), EndTag("frame")>>, FALSE)),
   about |-> [kind |-> "pieces", pieces |-> pieces]]

PiecesInputs == {PiecesInput(pieces) : pieces \in SeqsUpTo(Pieces, MaxRuns) \ {<<>>}}

OpenedPieces == Opened /\ input.about.kind = "pieces"

\* the runs the pieces are to give, in order
PieceRuns(pieces) ==
  Flatten([k \in 1..Len(pieces) |->
             CASE pieces[k].piece = "bare"  -> <<TextRun_new(BareText, FontStyle_default)>>
               [] pieces[k].piece = "blank" -> <<>>
               [] pieces[k].style = "record" -> <<TextRun_new(SpanText, RecordFont)>>
               [] OTHER -> <<TextRun_new(SpanText, FontStyle_default)>>])

\* C27: a span whose style name is absent or names no record gets the
\* baseline font (Sans, 24, not bold, not italic, black); non-blank text in a
\* paragraph outside any span is a run with that font at its place in the
\* run order; blank text outside a span gives no run.
C27_BaselineFontRuns ==
  OpenedPieces =>
    /\ output.ok
    /\ Len(AllElements(output.doc)) = 1
    /\ AllElements(output.doc)[1].kind = "Text"
    /\ AllElements(output.doc)[1].paragraphs
         = <<TextParagraph_new(PieceRuns(input.about.pieces))>>
    /\ FontStyle_default = [family |-> <<"S", "a", "n", "s">>, size |-> 24, bold |-> FALSE,
                            italic |-> FALSE, color |-> Color_rgb(0, 0, 0)]

\* text, a span without a record, blank text: two runs in the baseline font
C27_Witness ==
  /\ OpenedPieces
  /\ input.about.pieces = <<BarePiece, SpanPiece("unknown"), BlankPiece>>
  /\ AllElements(output.doc)[1].paragraphs[1].runs
       = <<TextRun_new(BareText, FontStyle_default), TextRun_new(SpanText, FontStyle_default)>>

(***************************************************************************)
(* Format-A frames with an image reference that resolves, and a text box   *)
(* before it, after it or not at all; the text box has a paragraph with    *)
(* text or none; a rectangle may follow the frame.                         *)
(***************************************************************************)
TextBox(with_paragraph) ==
  <<StartTag("text-box", <<>>)>>
  \o (IF with_paragraph
        THEN <<StartTag("p", <<>>), StartTag("span", <<>>), TextEv(SpanText),
               EndTag("span"), EndTag("p")>>
        ELSE <<>>)
  \o <<EndTag("text-box")>>

ImageRef == <<EmptyTag("image", <<Attr("href", PngPath)>>)>>

ImageFrame(text_box, with_paragraph) ==
  <<StartTag("frame", BoundsAttrs(StepBounds))>>
  \o (IF text_box = "before" THEN TextBox(with_paragraph) ELSE <<>>)
  \o ImageRef
  \o (IF text_box = "after" THEN TextBox(with_paragraph) ELSE <<>>)
  \o <<EndTag("frame")>>

FrameInput(text_box, with_paragraph, followed) ==
  [format |-> "odp",
   file |-> OdpFile(OnePage(ImageFrame(text_box, with_paragraph)
                            \o (IF followed THEN PrimitiveXml(Primitive("rect", FALSE))
                                ELSE <<>>))),
   about |-> [kind |-> "frame", text_box |-> text_box, with_paragraph |-> with_paragraph,
              followed |-> followed]]

FrameInputs ==
  {FrameInput(text_box, with_paragraph, followed) :
     text_box \in {"none", "before", "after"}, with_paragraph \in BOOLEAN,
     followed \in BOOLEAN}

OpenedFrame == Opened /\ input.about.kind = "frame"

\* the frame gave one Image with the frame's bounds and nothing else
OneImage ==
  /\ output.ok
  /\ ElementFacts(output.doc)
       = <<"Image">> \o (IF input.about.followed THEN <<"Rectangle">> ELSE <<>>)
  /\ AllElements(output.doc)[1].bounds = parse_bounds(ImageFrame("none", FALSE)[1])
  /\ AllElements(output.doc)[1].data = <<137, 80>>

\* C28: a frame with an image reference that resolves gives exactly one
\* element, an Image with the frame's bounds, and no Text element, with a
\* text box in the frame before or after the image reference.
C28_ImageFrameOneElement == OpenedFrame => OneImage

\* the same without a text box that has a paragraph before the image
TextBoxAfterImageIgnored ==
  (OpenedFrame /\ ~(input.about.text_box = "before" /\ input.about.with_paragraph)) => OneImage

\* a text box with a paragraph before the image gives a Text element too
TextBoxBeforeImageKept ==
  (OpenedFrame /\ input.about.text_box = "before" /\ input.about.with_paragraph) =>
    ElementFacts(output.doc)
      = <<"Text", "Image">> \o (IF input.about.followed THEN <<"Rectangle">> ELSE <<>>)

(***************************************************************************)
(* Format-A parts whose automatic-styles section stands before the body,   *)
(* after it, or in two sections around it that declare the same name; the  *)
(* page holds a shape or a text that refers to the styles.                 *)
(***************************************************************************)
ParagraphStyleName == <<"P", 1>>

\* the record of ParagraphStyleName: centered
ParagraphRecord ==
  <<StartTag("style", <<Attr("name", ParagraphStyleName), Attr("family", "paragraph")>>),
    EmptyTag("paragraph-properties", <<Attr("text-align", "center")>>),
    EndTag("style")>>

\* a rect or line that refers to RecordName, or a text whose paragraph and
\* span refer to ParagraphStyleName and TextStyleName
StyledElement(tag) ==
  IF tag = "frame"
    THEN <<StartTag("frame", BoundsAttrs(GridBounds)), StartTag("text-box", <<>>),
           StartTag("p", <<Attr("style-name", ParagraphStyleName)>>),
           StartTag("span", <<Attr("style-name", TextStyleName)>>), TextEv(SpanText),
           EndTag("span"), EndTag("p"), EndTag("text-box"), EndTag("frame")>>
    ELSE <<EmptyTag(tag, StyleRef("record") \o PrimitiveAttrs(tag))>>

\* the records: the last graphic record of RecordName has the given fill and
\* stroke; `earlier` is a record of the same name with the paints swapped
LaterRecords(fill, stroke) ==
  StyleRecord(RecordName, GraphicProps(fill, stroke, TRUE)) \o TextRecord \o ParagraphRecord
EarlierRecords(fill, stroke) == StyleRecord(RecordName, GraphicProps(stroke, fill, TRUE))

\* the part with its sections at `position`
OrderXml(position, tag, fill, stroke) ==
  <<DeclEv, StartTag("document-content", <<>>)>>
  \o (CASE position = "first" -> AutomaticStyles(LaterRecords(fill, stroke))
        [] position = "both"  -> AutomaticStyles(EarlierRecords(fill, stroke)
                                                 \o LaterRecords(fill, stroke))
        [] position = "split" -> AutomaticStyles(EarlierRecords(fill, stroke))
        [] OTHER              -> <<>>)
  \o <<StartTag("body", <<>>), StartTag("presentation", <<>>),
       StartTag("page", <<Attr("name", <<"Slide">>)>>)>>
  \o StyledElement(tag)
  \o <<EndTag("page"), EndTag("presentation"), EndTag("body")>>
  \o (IF position \in {"last", "split"} THEN AutomaticStyles(LaterRecords(fill, stroke))
      ELSE <<>>)
  \o <<EndTag("document-content")>>

OrderInput(position, tag, fill, stroke) ==
  [format |-> "odp", file |-> OdpFile(OrderXml(position, tag, fill, stroke)),
   about |-> [kind |-> "order", position |-> position, tag |-> tag, fill |-> fill,
              stroke |-> stroke]]

OrderInputs ==
  {OrderInput(position, tag, fill, stroke) :
     position \in {"first", "last", "both", "split"}, tag \in {"rect", "line", "frame"},
     fill \in Paints, stroke \in Paints}

OpenedOrder == Opened /\ input.about.kind = "order"

\* the same records, all declared before the body
DeclaredFirst(about) ==
  OrderXml(IF about.position = "split" THEN "both" ELSE "first",
           about.tag, about.fill, about.stroke)

\* the element shows the styles it refers to
StylesApplied(about, element) ==
  IF about.tag = "frame"
    THEN /\ element.alignment = "Center"
         /\ element.paragraphs = <<TextParagraph_new(<<TextRun_new(SpanText, RecordFont)>>)>>
    ELSE /\ element.fill.some <=> about.fill = "solid"
         /\ element.stroke.some <=> about.stroke = "solid"

\* C29: the style of a content element does not depend on where the
\* automatic-styles section stands: declared after the element it resolves
\* as declared before it, and the content pass works on the table the style
\* pass left.
C29_StylePositionFree ==
  OpenedOrder =>
    /\ output.ok
    /\ output = odp_load_file(OdpFile(DeclaredFirst(input.about)), 2)
    /\ Len(AllElements(output.doc)) = 1
    /\ StylesApplied(input.about, AllElements(output.doc)[1])
    /\ StylePass(OrderXml(input.about.position, input.about.tag, input.about.fill,
                          input.about.stroke))
         = StylePass(DeclaredFirst(input.about))

\* a rectangle before the section that declares its style: stroke without fill
C29_Witness ==
  /\ OpenedOrder
  /\ input.about = [kind |-> "order", position |-> "last", tag |-> "rect", fill |-> "none",
                    stroke |-> "solid"]
  /\ ~AllElements(output.doc)[1].fill.some
  /\ AllElements(output.doc)[1].stroke = Some(StrokeStyle_new(Color_from_hex(Navy).v, 100 * CmGrid))

(***************************************************************************)
(* Format-B slides of up to MaxShapes shapes, each with or without a       *)
(* preset geometry and with no text body, one without paragraphs, or one   *)
(* whose paragraphs are blank, have text, or both.                         *)
(***************************************************************************)
MaxShapes == 2

Geometries == {"none", "rect", "ellipse"}
Bodies == {"none", "empty", "blank", "text", "mixed"}
Sp(geometry, body) == [geometry |-> geometry, body |-> body]

\* <a:p><a:r><a:t>text</a:t></a:r></a:p>
Para(text) ==
  <<StartTag("p", <<>>), StartTag("r", <<>>), StartTag("t", <<>>), TextEv(text),
    EndTag("t"), EndTag("r"), EndTag("p")>>

BodyXml(body) ==
  CASE body = "none"  -> <<>>
    [] body = "empty" -> <<StartTag("txBody", <<>>), EndTag("txBody")>>
    [] body = "blank" -> <<StartTag("txBody", <<>>)>> \o Para(BlankText) \o <<EndTag("txBody")>>
    [] body = "text"  -> <<StartTag("txBody", <<>>)>> \o Para(BareText) \o <<EndTag("txBody")>>
    [] OTHER          -> <<StartTag("txBody", <<>>)>> \o Para(BlankText) \o Para(BareText)
                         \o <<EndTag("txBody")>>

ShapeXml(sp) ==
  <<StartTag("sp", <<>>), StartTag("spPr", <<>>)>> \o Xfrm
  \o (IF sp.geometry = "none" THEN <<>>
      ELSE <<EmptyTag("prstGeom", <<Attr("prst", sp.geometry)>>)>>)
  \o <<EndTag("spPr")>> \o BodyXml(sp.body) \o <<EndTag("sp")>>

ShapesInput(shapes) ==
  LET slide == [target |-> TRUE,
                entries |-> <<SlidePart(1, SlideXml(Flatten([k \in 1..Len(shapes) |->
                                                               ShapeXml(shapes[k])])))>>]
  IN [format |-> "pptx", file |-> PptxFile(<<slide>>, TRUE),
      about |-> [kind |-> "shapes", shapes |-> shapes]]

ShapesInputs ==
  {ShapesInput(shapes) :
     shapes \in SeqsUpTo({Sp(g, b) : g \in Geometries, b \in Bodies}, MaxShapes) \ {<<>>}}

OpenedShapes == Opened /\ input.about.kind = "shapes"

\* what a shape is to contribute
Contribution(sp) ==
  IF sp.body \in {"text", "mixed"} THEN <<"Text">>
  ELSE IF sp.geometry = "rect" THEN <<"Rectangle">>
  ELSE IF sp.geometry = "ellipse" THEN <<"Ellipse">>
  ELSE <<>>

ElementInit ==
  ReaderInitOver(PrimitivesInputs \cup StyledInputs \cup RecordsInputs \cup PiecesInputs
                 \cup FrameInputs \cup OrderInputs \cup ShapesInputs)
ElementSpec == ElementInit /\ [][ReaderNext]_vars

(***************************************************************************)
(* resolve_path on relationship targets (pptx/reader.rs 495-507): a slide  *)
(* directory of up to MaxDepth components and a target of up to MaxUps     *)
(* leading "../" segments followed by a path.                              *)
(***************************************************************************)
MaxDepth == 3
MaxUps == 2

Ups(k) == [i \in 1..k |-> "../"]
TargetRests == {<<"media/", "image1", ".png">>, <<"image1", ".png">>}

PathInputs ==
  {[base_dir |-> base_dir, ups |-> k, rest |-> rest] :
     base_dir \in SeqsUpTo({"ppt/", "slides/"}, MaxDepth), k \in 0..MaxUps, rest \in TargetRests}

\* resolve_path(slide_dir, rel_target) in </pic>
ResolvePath ==
  /\ pc = "path"
  /\ output' = Some(resolve_path(input.base_dir, Ups(input.ups) \o input.rest))
  /\ pc' = "resolved"
  /\ lastOp' = Did("ResolvePath")
  /\ UNCHANGED <<doc, nextId, zip, imgQueue, loaded, input>>

PathNext == ResolvePath

PathInit ==
  /\ doc = Document_new(1)
  /\ nextId = 2
  /\ pc = "path"
  /\ zip = <<>>
  /\ imgQueue = <<>>
  /\ loaded = None
  /\ lastOp = [op |-> "init", slides |-> 0]
  /\ input \in PathInputs
  /\ output = None

PathSpec == PathInit /\ [][PathNext]_vars

Resolved == pc = "resolved"

\* base_dir without its last k components, then the rest
Climbed(base_dir, k, rest) == SubSeq(base_dir, 1, Len(base_dir) - k) \o rest

\* C31: a target of k leading "../" segments and a path p resolves to the
\* slide directory without its last k components followed by p, and the
\* resolved path has no ".." segment.
C31_ParentSegmentsResolved ==
  (Resolved /\ input.ups <= Len(input.base_dir)) =>
    /\ output.v = Climbed(input.base_dir, input.ups, input.rest)
    /\ \A i \in 1..Len(output.v) : output.v[i] # "../"

\* the same for targets with at most one "../"
OneParentResolved ==
  (Resolved /\ input.ups <= 1 /\ input.ups <= Len(input.base_dir)) =>
    output.v = Climbed(input.base_dir, input.ups, input.rest)

\* of two or more "../" only the first is resolved
SecondParentKept ==
  (Resolved /\ input.ups >= 2 /\ Len(input.base_dir) >= 1) =>
    output.v = Climbed(input.base_dir, 1, Ups(input.ups - 1) \o input.rest)

(***************************************************************************)
(* Slide::find_element_at (model/slide.rs 57-68) and Rect::contains        *)
(* (model/geometry.rs 51-56) on slides of overlapping and separate         *)
(* rectangles and points inside, on the edges of and outside them.         *)
(***************************************************************************)
Point_new(x, y) == [x |-> x, y |-> y]

\* Rect::contains: the edges belong to the rectangle
contains(rect, point) ==
  /\ point.x >= rect.x
  /\ point.x <= rect.x + rect.w
  /\ point.y >= rect.y
  /\ point.y <= rect.y + rect.h

\* a variant of the search that goes through the list from its start
RECURSIVE find_element_at_upwards(_, _)
find_element_at_upwards(elements, point) ==
  IF elements = <<>> THEN None
  ELSE IF contains(Head(elements).bounds, point)
    THEN Some([index |-> 0, element |-> Head(elements)])
    ELSE LET rest == find_element_at_upwards(Tail(elements), point)
         IN IF rest.some THEN Some([rest.v EXCEPT !.index = @ + 1]) ELSE None

\* for (i, element) in elements.iter().enumerate().rev(): the first hit from
\* the end of the list, with its 0-based index
RECURSIVE find_element_at(_, _)
find_element_at(elements, point) ==
  IF elements = <<>> THEN None
  ELSE IF contains(elements[Len(elements)].bounds, point)
    THEN Some([index |-> Len(elements) - 1, element |-> elements[Len(elements)]])
    ELSE find_element_at(SubSeq(elements, 1, Len(elements) - 1), point)

HitBounds ==
  { Rect_new(0, 0, 10 * PtUnit, 10 * PtUnit),
    Rect_new(5 * PtUnit, 5 * PtUnit, 10 * PtUnit, 10 * PtUnit),
    Rect_new(20 * PtUnit, 20 * PtUnit, 5 * PtUnit, 0) }
HitCoordinates == {-1, 0, 5 * PtUnit, 10 * PtUnit, 10 * PtUnit + 1, 15 * PtUnit, 20 * PtUnit}

HitSlides ==
  { [k \in 1..Len(bs) |-> ShapeElement_new(k, bs[k], "Rectangle")] :
      bs \in SeqsUpTo(HitBounds, MaxElements) }

HitInputs ==
  {[elements |-> es, point |-> Point_new(x, y)] :
     es \in HitSlides, x \in HitCoordinates, y \in HitCoordinates}

\* the click handler asks for the element at the point
FindElementAt ==
  /\ pc = "point"
  /\ output' = find_element_at(input.elements, input.point)
  /\ pc' = "found"
  /\ lastOp' = Did("FindElementAt")
  /\ UNCHANGED <<doc, nextId, zip, imgQueue, loaded, input>>

HitNext == FindElementAt

HitInit ==
  /\ doc = Document_new(1)
  /\ nextId = 2
  /\ pc = "point"
  /\ zip = <<>>
  /\ imgQueue = <<>>
  /\ loaded = None
  /\ lastOp = [op |-> "init", slides |-> 0]
  /\ input \in HitInputs
  /\ output = None

HitSpec == HitInit /\ [][HitNext]_vars

Found == pc = "found"

\* the list positions whose bounds hold the point
Hits == {i \in 1..Len(input.elements) : contains(input.elements[i].bounds, input.point)}

\* C32: find_element_at returns the element with the greatest list index
\* among those whose bounds contain the point, with that index, and nothing
\* exactly when no element's bounds contain the point.
C32_TopmostElementFound ==
  Found =>
    /\ output.some <=> Hits # {}
    /\ output.some =>
         /\ output.v.index + 1 \in Hits
         /\ \A i \in Hits : i <= output.v.index + 1
         /\ output.v.element = input.elements[output.v.index + 1]

\* a point inside two different rectangles of a slide:
\* the one listed second is returned
C32_Witness ==
  /\ Found
  /\ Len(input.elements) = 2
  /\ Hits = {1, 2}
  /\ input.elements[1].bounds # input.elements[2].bounds
  /\ output = Some([index |-> 1, element |-> input.elements[2]])

(***************************************************************************)
(* The destination file of a save that failed (writer.rs 14-55 under the   *)
(* window's save and save-as actions).                                     *)
(***************************************************************************)
\* the step is a save or save-as to a path that returned an error
FailedSave ==
  /\ Logged("save") \/ Logged("save-as")
  /\ log'[Len(log')].path.some
  /\ ~log'[Len(log')].ok

\* C33: when a step of save fails after the destination file was opened, the
\* destination still holds what it held before the save.
C33_FailedSaveKeepsFile ==
  [][FailedSave => input'[log'[Len(log')].path.v] = input[log'[Len(log')].path.v]]_vars

\* a failed save changes no other file and neither the document nor file_path
FailedSaveKeepsTheRest ==
  [][FailedSave =>
       /\ \A p \in Paths \ {log'[Len(log')].path.v} : input'[p] = input[p]
       /\ doc' = doc
       /\ file_path' = file_path]_vars

(***************************************************************************)
(* Style records without a name in the style pass (reader.rs 142-187).     *)
(***************************************************************************)
\* the records that carry a name
NamedOnly(records) == SelectSeq(records, LAMBDA r : r.name # NoName)

\* the properties of the entries come from records of the entry's name
EntriesFromOwnRecords(records) ==
  \A k \in 1..Len(StyleTable) :
    \E j \in 1..Len(records) :
      /\ records[j].name = StyleTable[k].name
      /\ StyleTable[k].info = Declares(records[j])

\* C34: a style element without a name attribute adds no entry to the style
\* table and changes no entry: the table is the one of the section without
\* such elements, and an entry holds only properties declared in a style
\* element of its name.
C34_NamelessRecordIgnored ==
  OpenedRecords =>
    /\ StyleTable = StylePass(RecordsXml(NamedOnly(input.about.records)))
    /\ EntriesFromOwnRecords(input.about.records)

\* a section that starts with a record without a name: that record adds
\* nothing
LeadingNamelessIgnored ==
  (OpenedRecords /\ input.about.records[1].name = NoName
     /\ \A k \in 2..Len(input.about.records) : input.about.records[k].name # NoName)
    => /\ StyleTable = StylePass(RecordsXml(NamedOnly(input.about.records)))
       /\ EntriesFromOwnRecords(input.about.records)

(***************************************************************************)
(* Format-B slides of up to MaxShapes shapes and pictures, each with an    *)
(* offset tag, an extent tag, both or neither.                             *)
(***************************************************************************)
Placed(tag, off, ext) == [tag |-> tag, off |-> off, ext |-> ext]
PlacedItems == {Placed(tag, off, ext) : tag \in {"sp", "pic"}, off \in BOOLEAN, ext \in BOOLEAN}

OffTag == EmptyTag("off", <<Attr("x", Num(10 * EMU_PER_PT)), Attr("y", Num(5 * EMU_PER_PT))>>)
ExtTag == EmptyTag("ext", <<Attr("cx", Num(20 * EMU_PER_PT)), Attr("cy", Num(30 * EMU_PER_PT))>>)

PlacedXfrm(item) ==
  <<StartTag("xfrm", <<>>)>>
  \o (IF item.off THEN <<OffTag>> ELSE <<>>)
  \o (IF item.ext THEN <<ExtTag>> ELSE <<>>)
  \o <<EndTag("xfrm")>>

PlacedXml(item) ==
  IF item.tag = "sp"
    THEN <<StartTag("sp", <<>>), StartTag("spPr", <<>>)>> \o PlacedXfrm(item)
         \o <<EmptyTag("prstGeom", <<Attr("prst", "rect")>>), EndTag("spPr"), EndTag("sp")>>
    ELSE <<StartTag("pic", <<>>), StartTag("blipFill", <<>>),
           EmptyTag("blip", <<Attr("r:embed", RefId(1))>>), EndTag("blipFill"),
           StartTag("spPr", <<>>)>> \o PlacedXfrm(item) \o <<EndTag("spPr"), EndTag("pic")>>

PlacedInput(items) ==
  LET slide == [target |-> TRUE,
                entries |->
                  <<SlidePart(1, SlideXml(Flatten([k \in 1..Len(items) |-> PlacedXml(items[k])]))),
                    SlideRels(1, <<Relationship(RefId(1), MediaTarget)>>),
                    MediaEntry>>]
  IN [format |-> "pptx", file |-> PptxFile(<<slide>>, TRUE),
      about |-> [kind |-> "placed", items |-> items]]

PlacedInputs == {PlacedInput(items) : items \in SeqsUpTo(PlacedItems, MaxShapes) \ {<<>>}}

OpenedPlaced == Opened /\ input.about.kind = "placed"

\* the bounds the tags of an item give: origin (0,0) without an offset tag,
\* 100 x 100 pt without an extent tag
OwnBounds(item) ==
  Rect_new(IF item.off THEN 10 * PtUnit ELSE 0, IF item.off THEN 5 * PtUnit ELSE 0,
           IF item.ext THEN 20 * PtUnit ELSE 100 * PtUnit,
           IF item.ext THEN 30 * PtUnit ELSE 100 * PtUnit)

EachOwnBounds ==
  /\ output.ok
  /\ Len(AllElements(output.doc)) = Len(input.about.items)
  /\ \A k \in 1..Len(input.about.items) :
       /\ AllElements(output.doc)[k].kind
            = (IF input.about.items[k].tag = "sp" THEN "Shape" ELSE "Image")
       /\ AllElements(output.doc)[k].bounds = OwnBounds(input.about.items[k])

\* C35: the bounds of the element of a shape or picture come from the
\* offset and extent tags inside it only: without them the origin is (0,0)
\* and the size 100 x 100 pt, whatever came before it on the slide.
C35_BoundsFromOwnTags == OpenedPlaced => EachOwnBounds

\* the same for the first shape and the first picture of a slide
FirstOfKindOwnBounds ==
  (OpenedPlaced /\ (Len(input.about.items) = 1
                    \/ input.about.items[1].tag # input.about.items[2].tag))
    => EachOwnBounds

\* a shape after a shape: a missing offset or extent is the one of the
\* shape before
BoundsCarriedOver ==
  (OpenedPlaced /\ Len(input.about.items) = 2
     /\ input.about.items[1] = Placed("sp", TRUE, TRUE)
     /\ input.about.items[2] = Placed("sp", FALSE, FALSE))
    => AllElements(output.doc)[2].bounds = OwnBounds(Placed("sp", TRUE, TRUE))

(***************************************************************************)
(* The readers on the placed shapes and pictures.                          *)
(***************************************************************************)
PlacedInit == ReaderInitOver(PlacedInputs \cup PagesInputs)
PlacedSpec == PlacedInit /\ [][ReaderNext]_vars

(***************************************************************************)
(* Document::remove_slide and Document::move_slide on every document of    *)
(* up to MaxDeck slides, with indices inside and outside the sequence.     *)
(***************************************************************************)
MaxDeck == 3

Decks ==
  {[slides |-> [k \in 1..Len(ids) |-> Slide_new(ids[k])]] :
     ids \in {s \in SeqsUpTo(1..MaxDeck, MaxDeck) :
                Len(s) >= 1 /\ \A i, j \in 1..Len(s) : i # j => s[i] # s[j]}}

DeckInputs ==
  {[op |-> "remove_slide", doc |-> d, index |-> index] : d \in Decks, index \in 0..MaxDeck}
  \cup {[op |-> "move_slide", doc |-> d, from |-> from, to |-> to] :
          d \in Decks, from \in 0..MaxDeck, to \in 0..MaxDeck}

CallRemoveSlide ==
  /\ pc = "call"
  /\ input.op = "remove_slide"
  /\ doc' = remove_slide(doc, input.index)
  /\ output' = remove_slide_returned(doc, input.index)
  /\ pc' = "returned"
  /\ UNCHANGED <<nextId, zip, imgQueue, loaded, lastOp, input>>

CallMoveSlide ==
  /\ pc = "call"
  /\ input.op = "move_slide"
  /\ doc' = move_slide(doc, input.from, input.to)
  /\ pc' = "returned"
  /\ UNCHANGED <<nextId, zip, imgQueue, loaded, lastOp, input, output>>

DeckNext == CallRemoveSlide \/ CallMoveSlide

DeckInit ==
  /\ input \in DeckInputs
  /\ doc = input.doc
  /\ nextId = MaxDeck + 1
  /\ pc = "call"
  /\ zip = <<>>
  /\ imgQueue = <<>>
  /\ loaded = None
  /\ lastOp = [op |-> "init", slides |-> 0]
  /\ output = None

DeckSpec == DeckInit /\ [][DeckNext]_vars

SlidesBefore == input.doc.slides
SlideRemoved == pc = "returned" /\ input.op = "remove_slide"
Removable == Len(SlidesBefore) > 1 /\ input.index < Len(SlidesBefore)

\* C36: with more than one slide and the index in range remove_slide
\* removes exactly the slide at the index, returns it and keeps the order of
\* the others; with a single slide or an index out of range it returns
\* nothing and the slide sequence is unchanged.
C36_RemoveSlideAtIndex ==
  SlideRemoved =>
    IF Removable
      THEN /\ output = Some(SlidesBefore[input.index + 1])
           /\ Len(doc.slides) = Len(SlidesBefore) - 1
           /\ \A k \in 1..Len(doc.slides) :
                doc.slides[k] = SlidesBefore[IF k <= input.index THEN k ELSE k + 1]
      ELSE /\ output = None
           /\ doc.slides = SlidesBefore

\* the first of three slides has been removed and returned
C36_Witness ==
  /\ SlideRemoved
  /\ Len(SlidesBefore) = 3
  /\ input.index = 0
  /\ output.some

SlideMoved == pc = "returned" /\ input.op = "move_slide"
Movable ==
  input.from < Len(SlidesBefore) /\ input.to < Len(SlidesBefore) /\ input.from # input.to
IdsOf(slides) == {slides[k].id : k \in 1..Len(slides)}

\* C37: move_slide(from, to) with both indices in range and from # to keeps
\* the slide count and the set of slide ids, puts the slide of index from at
\* index to and keeps the relative order of the other slides; with an index
\* out of range or from = to the slide sequence is unchanged.
C37_MoveSlideFromTo ==
  SlideMoved =>
    IF Movable
      THEN /\ Len(doc.slides) = Len(SlidesBefore)
           /\ IdsOf(doc.slides) = IdsOf(SlidesBefore)
           /\ doc.slides[input.to + 1] = SlidesBefore[input.from + 1]
           /\ RemoveAt(doc.slides, input.to + 1) = RemoveAt(SlidesBefore, input.from + 1)
      ELSE doc.slides = SlidesBefore

\* the first of three slides has been moved to the end
C37_Witness ==
  /\ SlideMoved
  /\ Len(SlidesBefore) = 3
  /\ input.from = 0
  /\ input.to = 2
  /\ doc.slides # SlidesBefore

(***************************************************************************)
(* The canvas (ui/canvas_view.rs) with the window's slide panel, tool      *)
(* buttons, image chooser and open action (ui/window.rs).  The canvas      *)
(* state is the record output; input is the event handled last and the     *)
(* number of events so far.  Points and offsets are in slide coordinates,  *)
(* that is after widget_to_slide_coords and the division by scale.         *)
(***************************************************************************)
MaxEvents == 5

current_slide_index == output.current_slide_index
selection == output.selection
drag_op == output.drag_op
current_tool == output.current_tool

DemoFont(size, bold, italic, hex) ==
  [family |-> <<"S", "a", "n", "s">>, size |-> size, bold |-> bold, italic |-> italic,
   color |-> Color_from_hex(hex).v]

DemoText(id, bounds, text, font, alignment) ==
  [TextElement_new(id, bounds, <<>>) EXCEPT
     !.paragraphs = <<TextParagraph_new(<<TextRun_new(text, font)>>)>>,
     !.alignment = alignment]

DemoShape(id, bounds, shape_type, fill, stroke) ==
  [ShapeElement_new(id, bounds, shape_type) EXCEPT !.fill = fill, !.stroke = stroke]

\* window.rs create_demo_document: a title slide, a slide of shapes and an
\* empty slide.  Lengths of this model stay below 107 pt, so the
\* rectangles are a tenth of the source's
create_demo_document ==
  [slides |->
     <<[Slide_new(1) EXCEPT !.elements =
          <<DemoText(4, Rect_new(Pt(8), Pt(16), Pt(80), Pt(8)), <<"Welcome to Lumina">>,
                     DemoFont(48, TRUE, FALSE, Hex(28, 28, 28)), "Center"),
            DemoText(5, Rect_new(Pt(16), Pt(26), Pt(64), Pt(5)), <<"A modern presentation app">>,
                     DemoFont(20, FALSE, TRUE, Hex(85, 85, 85)), "Center")>>],
       [Slide_new(2) EXCEPT !.elements =
          <<DemoText(6, Rect_new(Pt(4), Pt(3), Pt(88), Pt(6)), <<"Shape Elements">>,
                     DemoFont(36, TRUE, FALSE, Hex(28, 28, 28)), "Left"),
            DemoShape(7, Rect_new(Pt(6), Pt(13), Pt(25), Pt(18)), "Rectangle",
                      Some(FillStyle_new(Color_from_hex(Hex(53, 132, 228)).v)), None),
            DemoShape(8, Rect_new(Pt(35) + Pt(1) \div 2, Pt(13), Pt(25), Pt(18)), "Ellipse",
                      Some(FillStyle_new(Color_from_hex(Hex(245, 194, 17)).v)),
                      Some(StrokeStyle_new(Color_from_hex(Hex(164, 129, 2)).v, 3 * PtUnit))),
            DemoShape(9, Rect_new(Pt(65), Pt(13), Pt(25), Pt(18)), "Rectangle",
                      Some(FillStyle_new(Color_from_hex(Hex(51, 209, 122)).v)), None),
            DemoShape(10, Rect_new(Pt(6), Pt(36), Pt(84), 0), "Line", None,
                      Some(StrokeStyle_new(Color_from_hex(Hex(192, 28, 40)).v, 3 * PtUnit))),
            DemoText(11, Rect_new(Pt(6), Pt(40), Pt(84), Pt(4)), <<"Lumina supports shapes">>,
                     DemoFont(16, FALSE, FALSE, Hex(85, 85, 85)), "Center")>>],
       Slide_new(3)>>]

\* selection.rs HandlePosition::rect_for_bounds and hit_test_handle: the
\* first handle, in the order of HandlePosition::all(), whose square
\* widened by 4 on every side holds the point
HANDLE_SIZE == 8 * PtUnit
HandleOrder ==
  <<"TopLeft", "TopCenter", "TopRight", "MiddleLeft", "MiddleRight",
    "BottomLeft", "BottomCenter", "BottomRight">>

rect_for_bounds(pos, bounds) ==
  LET half == HANDLE_SIZE \div 2
      cx == CASE pos \in {"TopLeft", "MiddleLeft", "BottomLeft"} -> bounds.x
              [] pos \in {"TopCenter", "BottomCenter"} -> bounds.x + bounds.w \div 2
              [] OTHER -> bounds.x + bounds.w
      cy == CASE pos \in {"TopLeft", "TopCenter", "TopRight"} -> bounds.y
              [] pos \in {"MiddleLeft", "MiddleRight"} -> bounds.y + bounds.h \div 2
              [] OTHER -> bounds.y + bounds.h
  IN Rect_new(cx - half, cy - half, HANDLE_SIZE, HANDLE_SIZE)

hit_test_handle(point, bounds) ==
  LET hits == {k \in 1..Len(HandleOrder) :
                 LET handle == rect_for_bounds(HandleOrder[k], bounds)
                 IN contains(Rect_new(handle.x - 4 * PtUnit, handle.y - 4 * PtUnit,
                                      handle.w + 8 * PtUnit, handle.h + 8 * PtUnit), point)}
  IN IF hits = {} THEN None
     ELSE Some(HandleOrder[CHOOSE k \in hits : \A m \in hits : k <= m])

\* a variant of set_current_slide that keeps the selection
set_current_slide_keep(canvas, index) == [canvas EXCEPT !.current_slide_index = index]

\* CanvasView::set_current_slide
set_current_slide(canvas, index) ==
  [canvas EXCEPT !.current_slide_index = index, !.selection = None]

\* the element of the slide with this id, as the handlers' loops find it
ElementWithId(slide, id) ==
  LET hits == {k \in 1..Len(slide.elements) : slide.elements[k].id = id}
  IN IF hits = {} THEN None ELSE Some(slide.elements[CHOOSE k \in hits : \A m \in hits : k <= m])

CanvasPoints == {Point_new(Pt(20), Pt(20)), Point_new(Pt(95), Pt(50))}
CanvasOffsets == {<<Pt(3), Pt(3)>>, <<-Pt(5), Pt(20)>>, <<Pt(4), -Pt(30)>>}
ToolButtons == {"Pointer", "Text", "Rectangle", "Ellipse", "Line"}

Handled(name, x, y) == [name |-> name, x |-> x, y |-> y, events |-> input.events + 1]
MoreEvents == input.events < MaxEvents

\* connect_pressed of the click gesture
Pressed ==
  /\ pc = "idle"
  /\ MoreEvents
  /\ \E point \in CanvasPoints :
       /\ input' = Handled("pressed", point.x, point.y)
       /\ output' =
            IF current_tool # "Pointer" THEN output
            ELSE IF current_slide_index >= Len(doc.slides) THEN output
            ELSE LET hit == find_element_at(doc.slides[current_slide_index + 1].elements, point)
                 IN [output EXCEPT !.selection =
                       IF hit.some THEN Some(hit.v.element.id) ELSE None]
  /\ UNCHANGED <<doc, nextId, pc, zip, imgQueue, loaded, lastOp>>

\* the operation connect_drag_begin leaves in drag_op
BegunOperation(point) ==
  IF current_slide_index >= Len(doc.slides) THEN drag_op
  ELSE IF current_tool # "Pointer"
    THEN Some([kind |-> "Create", tool |-> current_tool, start |-> point])
  ELSE IF ~selection.some THEN drag_op
  ELSE LET element == ElementWithId(doc.slides[current_slide_index + 1], selection.v)
       IN IF ~element.some THEN drag_op
          ELSE IF hit_test_handle(point, element.v.bounds).some
            THEN Some([kind |-> "Resize",
                       handle |-> hit_test_handle(point, element.v.bounds).v,
                       orig_bounds |-> element.v.bounds])
          ELSE IF contains(element.v.bounds, point)
            THEN Some([kind |-> "Move", start_x |-> point.x, start_y |-> point.y,
                       orig_bounds |-> element.v.bounds])
          ELSE drag_op

DragBegin ==
  /\ pc = "idle"
  /\ MoreEvents
  /\ \E point \in CanvasPoints :
       /\ input' = Handled("drag_begin", point.x, point.y)
       /\ output' = [output EXCEPT !.drag_op = BegunOperation(point)]
  /\ pc' = "dragging"
  /\ UNCHANGED <<doc, nextId, zip, imgQueue, loaded, lastOp>>

\* connect_drag_update: a move or resize puts op.apply(dx, dy) into the
\* selected element of the current slide; a create drag only redraws
DragUpdate ==
  /\ pc = "dragging"
  /\ MoreEvents
  /\ \E offset \in CanvasOffsets :
       /\ input' = Handled("drag_update", offset[1], offset[2])
       /\ doc' =
            IF ~drag_op.some \/ drag_op.v.kind = "Create" THEN doc
            ELSE IF current_slide_index >= Len(doc.slides) THEN doc
            ELSE IF ~selection.some THEN doc
            ELSE [doc EXCEPT !.slides[current_slide_index + 1] =
                    SetBounds(@, selection.v,
                              DragOperation_apply(drag_op.v, offset[1], offset[2]))]
  /\ UNCHANGED <<nextId, pc, zip, imgQueue, loaded, lastOp, output>>

\* connect_drag_end: the pending operation is taken; a create drag of at
\* least 5 units adds the tool's element, selects it and goes back to the
\* pointer
DragEnd ==
  /\ pc = "dragging"
  /\ MoreEvents
  /\ \E offset \in CanvasOffsets :
       LET dx == offset[1]
           dy == offset[2]
           op == drag_op
           element ==
             IF op.some /\ op.v.kind = "Create"
               THEN create_element_for_tool(
                      op.v.tool,
                      normalize_rect(op.v.start.x, op.v.start.y,
                                     op.v.start.x + dx, op.v.start.y + dy),
                      nextId)
               ELSE None
       IN /\ input' = Handled("drag_end", dx, dy)
          /\ IF ~op.some \/ op.v.kind # "Create" \/ (Abs(dx) < Pt(5) /\ Abs(dy) < Pt(5))
                  \/ ~element.some
               THEN /\ output' = [output EXCEPT !.drag_op = None]
                    /\ UNCHANGED <<doc, nextId>>
               ELSE /\ doc' = IF current_slide_index < Len(doc.slides)
                                THEN [doc EXCEPT !.slides[current_slide_index + 1] =
                                        add_element(@, element.v)]
                                ELSE doc
                    /\ nextId' = nextId + 1
                    /\ output' = [output EXCEPT !.drag_op = None,
                                                !.selection = Some(element.v.id),
                                                !.current_tool = "Pointer"]
  /\ pc' = "idle"
  /\ UNCHANGED <<zip, imgQueue, loaded, lastOp>>

\* connect_key_pressed with Delete or BackSpace
KeyDelete ==
  /\ MoreEvents
  /\ input' = Handled("key_delete", 0, 0)
  /\ IF selection.some /\ current_slide_index < Len(doc.slides)
       THEN /\ doc' = [doc EXCEPT !.slides[current_slide_index + 1] =
                         remove_element(@, selection.v)]
            /\ output' = [output EXCEPT !.selection = None]
       ELSE UNCHANGED <<doc, output>>
  /\ UNCHANGED <<nextId, pc, zip, imgQueue, loaded, lastOp>>

\* connect_key_pressed with Escape: a creation tool goes back to the
\* pointer, with the pointer the selection is dropped
KeyEscape ==
  /\ MoreEvents
  /\ input' = Handled("key_escape", 0, 0)
  /\ output' = IF current_tool # "Pointer" THEN [output EXCEPT !.current_tool = "Pointer"]
               ELSE [output EXCEPT !.selection = None]
  /\ UNCHANGED <<doc, nextId, pc, zip, imgQueue, loaded, lastOp>>

\* a thumbnail of the slide panel is clicked: there is one for every slide
SlideSelected ==
  /\ pc = "idle"
  /\ MoreEvents
  /\ \E index \in 0..(Len(doc.slides) - 1) :
       /\ input' = Handled("slide_selected", index, 0)
       /\ output' = set_current_slide(output, index)
  /\ UNCHANGED <<doc, nextId, pc, zip, imgQueue, loaded, lastOp>>

\* window.rs add-slide button
AddSlideClicked ==
  /\ pc = "idle"
  /\ MoreEvents
  /\ input' = Handled("add_slide", 0, 0)
  /\ doc' = insert_slide(doc, current_slide_index + 1, nextId)
  /\ nextId' = nextId + 1
  /\ output' = set_current_slide(output, Min(current_slide_index + 1, Len(doc.slides)))
  /\ UNCHANGED <<pc, zip, imgQueue, loaded, lastOp>>

\* window.rs tool buttons; the image button opens the chooser instead
ToolToggled ==
  /\ pc = "idle"
  /\ MoreEvents
  /\ \E tool \in ToolButtons :
       /\ input' = Handled("tool_toggled", 0, 0)
       /\ output' = [output EXCEPT !.current_tool = tool]
  /\ UNCHANGED <<doc, nextId, pc, zip, imgQueue, loaded, lastOp>>

\* window.rs open_image_dialog's callback: the pointer tool in every case,
\* and with a readable file the image on the current slide, selected
ImageChosen ==
  /\ pc = "idle"
  /\ MoreEvents
  /\ input' = Handled("image_chosen", 0, 0)
  /\ \E readable \in BOOLEAN :
       IF readable
         THEN /\ doc' = IF current_slide_index < Len(doc.slides)
                          THEN [doc EXCEPT !.slides[current_slide_index + 1] =
                                  add_element(@, ImageElement_new(nextId, InsertImageBounds,
                                                                  <<137, 80>>, "image/png"))]
                          ELSE doc
              /\ nextId' = nextId + 1
              /\ output' = [output EXCEPT !.current_tool = "Pointer",
                                          !.selection = Some(nextId)]
         ELSE /\ output' = [output EXCEPT !.current_tool = "Pointer"]
              /\ UNCHANGED <<doc, nextId>>
  /\ UNCHANGED <<pc, zip, imgQueue, loaded, lastOp>>

\* window.rs open action's callback: a loaded document replaces the
\* document and the canvas shows its first slide; a failed load changes
\* nothing
DocumentOpened ==
  /\ pc = "idle"
  /\ MoreEvents
  /\ input' = Handled("document_opened", 0, 0)
  /\ \E r \in {odp_load_document(archive, nextId) : archive \in SampleArchives}
              \cup {pptx_load_document(archive, nextId) : archive \in SamplePackages} :
       IF r.ok
         THEN /\ doc' = r.doc
              /\ nextId' = r.nextId
              /\ output' = set_current_slide(output, 0)
         ELSE UNCHANGED <<doc, nextId, output>>
  /\ UNCHANGED <<pc, zip, imgQueue, loaded, lastOp>>

CanvasNext ==
  \/ Pressed \/ DragBegin \/ DragUpdate \/ DragEnd \/ KeyDelete \/ KeyEscape
  \/ SlideSelected \/ AddSlideClicked \/ ToolToggled \/ ImageChosen \/ DocumentOpened

CanvasInit ==
  /\ doc = create_demo_document
  /\ nextId = 12
  /\ pc = "idle"
  /\ zip = <<>>
  /\ imgQueue = <<>>
  /\ loaded = None
  /\ lastOp = [op |-> "init", slides |-> 0]
  /\ input = [name |-> "init", x |-> 0, y |-> 0, events |-> 0]
  /\ output = [current_slide_index |-> 0, selection |-> None, drag_op |-> None,
               current_tool |-> "Pointer"]

CanvasSpec == CanvasInit /\ [][CanvasNext]_vars

SelectionOnCurrentSlide ==
  selection.some =>
    /\ current_slide_index < Len(doc.slides)
    /\ \E k \in 1..Len(doc.slides[current_slide_index + 1].elements) :
         doc.slides[current_slide_index + 1].elements[k].id = selection.v

DragEnds == input'.name = "drag_end" /\ input'.events = input.events + 1
CreateDragEnds == DragEnds /\ drag_op.some /\ drag_op.v.kind = "Create"
MovedFar == Abs(input'.x) >= Pt(5) \/ Abs(input'.y) >= Pt(5)
ElementsBefore == doc.slides[current_slide_index + 1].elements
ElementsAfter == doc'.slides[current_slide_index + 1].elements

\* the element is of the kind the tool draws
OfToolKind(element, tool) ==
  IF tool = "Text" THEN element.kind = "Text"
  ELSE element.kind = "Shape" /\ element.shape_type = tool

OneElementCreated ==
  /\ Len(doc'.slides) = Len(doc.slides)
  /\ \A k \in 1..Len(doc.slides) : k # current_slide_index + 1 => doc'.slides[k] = doc.slides[k]
  /\ Len(ElementsAfter) = Len(ElementsBefore) + 1
  /\ SubSeq(ElementsAfter, 1, Len(ElementsBefore)) = ElementsBefore
  /\ OfToolKind(ElementsAfter[Len(ElementsAfter)], drag_op.v.tool)
  /\ output'.selection = Some(ElementsAfter[Len(ElementsAfter)].id)
  /\ output'.current_tool = "Pointer"
  /\ output'.current_slide_index = current_slide_index

NothingCreated ==
  /\ doc' = doc
  /\ output'.current_tool = current_tool
  /\ output'.selection = selection

ResizeBounds ==
  {Rect_new(Pt(30), Pt(30), Pt(40), Pt(40)), Rect_new(Pt(30), Pt(30), Pt(20), Pt(20)),
   Rect_new(Pt(10), Pt(40), Pt(60), 0)}
ResizeOffsets == {-Pt(30), -Pt(10), 0, Pt(10), Pt(30)}

ResizeInputs ==
  {[op |-> [kind |-> "Resize", handle |-> handle, orig_bounds |-> orig], dx |-> dx, dy |-> dy] :
     orig \in ResizeBounds, handle \in HandlePositions, dx \in ResizeOffsets, dy \in ResizeOffsets}

\* the drag-update handler's new_bounds = op.apply(dx, dy) for a resize
ApplyResize ==
  /\ pc = "drag"
  /\ output' = Some(DragOperation_apply(input.op, input.dx, input.dy))
  /\ pc' = "applied"
  /\ UNCHANGED <<doc, nextId, zip, imgQueue, loaded, lastOp, input>>

ResizeNext == ApplyResize

ResizeInit ==
  /\ input \in ResizeInputs
  /\ doc = Document_new(1)
  /\ nextId = 2
  /\ pc = "drag"
  /\ zip = <<>>
  /\ imgQueue = <<>>
  /\ loaded = None
  /\ lastOp = [op |-> "init", slides |-> 0]
  /\ output = None

ResizeSpec == ResizeInit /\ [][ResizeNext]_vars

Resized == pc = "applied"
Orig == input.op.orig_bounds
LeftHandles == {"TopLeft", "MiddleLeft", "BottomLeft"}
RightHandles == {"TopRight", "MiddleRight", "BottomRight"}
TopHandles == {"TopLeft", "TopCenter", "TopRight"}
BottomHandles == {"BottomLeft", "BottomCenter", "BottomRight"}

MinimumSize == output.v.w >= Pt(20) /\ output.v.h >= Pt(20)

OppositeEdgesKept ==
  /\ input.op.handle \in LeftHandles => output.v.x + output.v.w = Orig.x + Orig.w
  /\ input.op.handle \in RightHandles => output.v.x = Orig.x
  /\ input.op.handle \in TopHandles => output.v.y + output.v.h = Orig.y + Orig.h
  /\ input.op.handle \in BottomHandles => output.v.y = Orig.y

\* C40: after a resize drag, with any handle and any dx and dy, the
\* rectangle is at least 20 wide and 20 high and every edge opposite to the
\* dragged handle is where it was, also when the minimum size is reached.
C40_ResizeKeepsOppositeEdge == Resized => (MinimumSize /\ OppositeEdgesKept)

\* the size is never below the minimum
ResizeKeepsMinimumSize == Resized => MinimumSize

\* the width and height the drag asks for, before the minimum is enforced
AskedWidth ==
  CASE input.op.handle \in LeftHandles -> Orig.w - input.dx
    [] input.op.handle \in RightHandles -> Orig.w + input.dx
    [] OTHER -> Orig.w
AskedHeight ==
  CASE input.op.handle \in TopHandles -> Orig.h - input.dy
    [] input.op.handle \in BottomHandles -> Orig.h + input.dy
    [] OTHER -> Orig.h

\* the opposite edges stay while the minimum size is not reached
OppositeEdgeKeptAboveMinimum ==
  (Resized /\ AskedWidth >= Pt(20) /\ AskedHeight >= Pt(20)) => OppositeEdgesKept

\* a right or bottom handle never moves the left or top edge
LeftAndTopEdgeKept ==
  Resized => /\ input.op.handle \in RightHandles => output.v.x = Orig.x
             /\ input.op.handle \in BottomHandles => output.v.y = Orig.y

====
